---- MODULE Spec2Model ----
\* chainscan: the scanning pipeline (raw block files -> stored blocks ->
\* topologically ordered blocks -> longest-chain blocks -> transactions).
\*
\* A block hash is modelled by a positive integer; hash 0 is the all-zero
\* hash (GENESIS_PREV_BLOCK_HASH).  A block file is a sequence of framed blocks
\* followed by a number of zero bytes (bitcoind preallocates its files).
EXTENDS Integers, Sequences, FiniteSets, TLC

\* ---------------------------------------------------------------- bounds
NumBlocks == 4          \* blocks the node may write (arbitrary parents, any order)
MaxMargin == 3          \* height_safety_margin ranges over 0..MaxMargin
ChainLen == 8           \* blocks of the linear-chain scenarios
FilterChainLen == 5     \* blocks of the chain the filter scenarios run over
MaxBound == 3           \* filter bounds range over 0..MaxBound (heights, hashes)
PreallocLen == 1000     \* zero bytes a preallocated block file starts with
MaxResumes == 2         \* times an iterator is pickled and restored in one run

\* ------------------------------------------------------ program constants
GENESIS_PREV_BLOCK_HASH == 0
HEIGHT_SAFETY_MARGIN == 6
FrameHeaderLen == 8
BlockHeaderLen == 80
PreGenesisHeight == -1
NoneVal == -100         \* Python's None where an integer is optional

VARIABLES
    disk,       \* the block files: Seq of [frames: Seq(frame), pad: Nat]
    cfg,        \* constructor arguments: margin, refresh, block filter
    raw,        \* RawFileBlockIterator, with its RawDataIterator / RawFilesIterator
    topo,       \* TopologicalBlockIterator
    lc,         \* LongestChainBlockIterator (with its _WorkingBlockFilter)
    pc,         \* position inside LongestChainBlockIterator.__next__
    result,     \* outcome of the last finished __next__ call
    raw_out,    \* history: StoredBlocks returned by RawFileBlockIterator
    topo_out,   \* history: blocks returned by TopologicalBlockIterator
    released,   \* history: blocks released by _get_next_block_to_release
    emitted,    \* history: blocks returned by LongestChainBlockIterator
    txit,       \* TxIterator: its own generation and its _block_txs
    tx_out,     \* history: transactions returned by TxIterator
    files_out,  \* history: file names returned by RawFilesIterator.__next__
    tail,       \* tailable: its stop event, the clock, the __next__ in progress
    tracker,    \* TxSpendingTracker: its utxoset
    tracked_out, \* history: transactions returned by TrackedSpendingTxIterator
    txs_gen,    \* the generator of TxSpendingTracker.process_txs_gen
    fed,        \* history: transactions handed to process_tx by the consumer
    blockchain, \* BlockChain: its _blocks and its _height_to_hash
    bc_out,     \* history: blocks returned by BlockChainIterator
    gen,        \* IndependentTxSetGenerator.gen_sets: next_set and pending
    stream,     \* history: the transactions gen_sets has taken from tx_iter
    sets_out,   \* history: the lists yielded by gen_sets
    datadir,    \* the names of the files in the data directory
    globit      \* RawFilesIterator built with a raw_files_glob_pattern

vars == << disk, cfg, raw, topo, lc, pc, result,
           raw_out, topo_out, released, emitted, txit, tx_out,
           files_out, tail, tracker, tracked_out, txs_gen, fed,
           blockchain, bc_out, gen, stream, sets_out, datadir, globit >>

\* ------------------------------------------------------------ sequences
Last(s) == s[Len(s)]

Front(s) == SubSeq(s, 1, Len(s) - 1)

RECURSIVE SumSeq(_)
SumSeq(s) == IF s = << >> THEN 0 ELSE Head(s) + SumSeq(Tail(s))

Range(s) == { s[i] : i \in 1..Len(s) }

\* SortedList.add: insert keeping the list sorted
RECURSIVE SortedAdd(_, _)
SortedAdd(s, v) ==
    IF s = << >> THEN << v >>
    ELSE IF v <= Head(s) THEN << v >> \o s
    ELSE << Head(s) >> \o SortedAdd(Tail(s), v)

\* the list with h put back in front of the outcome r of a removal
SortedRemoved(h, r) == [ kind |-> r.kind, list |-> << h >> \o r.list ]

\* SortedList.remove: one occurrence of v is removed; ValueError when v is
\* not in the list, which then stays as it is
RECURSIVE SortedRemove(_, _)
SortedRemove(s, v) ==
    IF s = << >> THEN [ kind |-> "ValueError", list |-> << >> ]
    ELSE IF Head(s) = v THEN [ kind |-> "ok", list |-> Tail(s) ]
    ELSE SortedRemoved(Head(s), SortedRemove(Tail(s), v))

\* dict[key] = value
DictSet(d, k, v) == [ x \in (DOMAIN d) \cup {k} |-> IF x = k THEN v ELSE d[x] ]

\* dict.pop(key) of a key that is there: every caller tests the key first
DictDel(d, k) == [ x \in (DOMAIN d) \ {k} |-> d[x] ]

EmptyDict == [ x \in {} |-> 0 ]

\* ------------------------------------------------------- blocks on disk
\* A stored frame: the header fields the scanner reads, and the transactions.
NumTxsOf(h) == h % 3

TxSizeOf(h, i) == 10 + i

TxsOf(h) == [ i \in 1..NumTxsOf(h) |-> [ txid |-> 10 * h + i, rawsize |-> TxSizeOf(h, i) ] ]

TimeOf(h) == 600 * h

VarintLen == 1

\* Block.rawsize: length of the block payload
BlockRawSize(h) ==
    BlockHeaderLen + VarintLen + SumSeq([ i \in 1..NumTxsOf(h) |-> TxSizeOf(h, i) ])

FrameSize(f) == FrameHeaderLen + BlockRawSize(f.hash)

DataLen(frames) == SumSeq([ i \in 1..Len(frames) |-> FrameSize(frames[i]) ])

\* len(blob)
BlobLen(blob) == DataLen(blob.frames) + blob.pad

EmptyBlob == [ frames |-> << >>, pad |-> 0 ]

\* deserialize_block(blob[offset:], -1): the block framed at offset, or None
\* (kind "none") when the magic is absent: zero padding, or fewer than 8 bytes.
RECURSIVE FrameAt(_, _)
FrameAt(frames, offset) ==
    IF frames = << >> \/ offset < 0 THEN [ kind |-> "none" ]
    ELSE IF offset = 0 THEN [ kind |-> "block", frame |-> Head(frames) ]
    ELSE FrameAt(Tail(frames), offset - FrameSize(Head(frames)))

\* the Block made of the frame found: height as given (-1).  Every call makes
\* a new object: oid is the identity of the object, given by the caller as the
\* number of the Block objects made so far, this one included.
BlockOfFrame(f, oid) ==
    IF f.kind = "none" THEN f
    ELSE [ kind |-> "block",
           block |-> [ hash |-> f.frame.hash, prev |-> f.frame.prev,
                       height |-> -1, gen |-> 0, oid |-> oid ] ]

deserialize_block(blob, offset, oid) == BlockOfFrame(FrameAt(blob.frames, offset), oid)

\* ------------------------------------------------------- RawFilesIterator
\* File names are the indices of disk; lexicographic order is index order.
\* A slot of disk that holds NoFile is a name no file bears yet.
NoFile == [ frames |-> << >>, pad |-> NoneVal ]

\* mutant: the rescan forgets which files were used already
FindFilesAll(d, prev_file) ==
    SelectSeq([ i \in 1..Len(d) |-> i ], LAMBDA i : d[i] # NoFile)

\* _find_files: the sorted names, and after a first pass only the names
\* greater than the last one used
FindFiles(d, prev_file) ==
    SelectSeq([ i \in 1..Len(d) |-> i ],
              LAMBDA i : d[i] # NoFile /\ (prev_file = NoneVal \/ i > prev_file))

\* __next__ on refresh: _init with the files found, then _raw_next or raise
RawFilesRefreshed(rf, files) ==
    IF files # << >>
    THEN [ kind |-> "file", name |-> files[1],
           rf |-> [ files |-> files, pos |-> 1, prev_file |-> files[1] ] ]
    ELSE [ kind |-> "stop",
           rf |-> [ files |-> files, pos |-> 0, prev_file |-> rf.prev_file ] ]

\* RawFilesIterator.__next__ ; rf = [files, pos, prev_file]
RawFilesNext(rf, d, refresh) ==
    IF rf.pos < Len(rf.files)
    THEN [ kind |-> "file", name |-> rf.files[rf.pos + 1],
           rf |-> [ rf EXCEPT !.pos = rf.pos + 1, !.prev_file = rf.files[rf.pos + 1] ] ]
    ELSE IF refresh
         THEN RawFilesRefreshed(rf, FindFiles(d, rf.prev_file))
         ELSE [ kind |-> "stop", rf |-> rf ]

\* RawDataIterator.get_data
get_data(d, name) == d[name]

\* ---------------------------------------------------- RawFileBlockIterator
\* r = [cur_blob, cur_offset, cur_filename, rf]; made counts the Block objects
\* the iterator has made, which tells one object from another
RawInit(d) ==
    [ cur_blob |-> EmptyBlob, cur_offset |-> 0, cur_filename |-> NoneVal, made |-> 0,
      rf |-> [ files |-> FindFiles(d, NoneVal), pos |-> 0, prev_file |-> NoneVal ] ]

\* _reread_blob
RereadBlob(r, d) ==
    IF r.cur_filename # NoneVal
    THEN [ r EXCEPT !.cur_blob = get_data(d, r.cur_filename) ]
    ELSE r

\* mutant: the file position is taken after the offset has moved on
RawReturnOffsetAfter(r, b) ==
    IF b.kind = "none"
    THEN [ kind |-> "stop", raw |-> r ]
    ELSE [ kind |-> "block",
           raw |-> [ r EXCEPT !.cur_offset =
                                r.cur_offset + FrameHeaderLen + BlockRawSize(b.block.hash),
                              !.made = b.block.oid ],
           block |-> b.block,
           filepos |-> [ filename |-> r.cur_filename,
                         offset |-> r.cur_offset + FrameHeaderLen
                                       + BlockRawSize(b.block.hash) ] ]

\* the end of __next__: StopIteration when no block was found at the offset
\* (block_offset is r.cur_offset), else the offset moves on and the
\* StoredBlock is returned
RawReturn(r, b) ==
    IF b.kind = "none"
    THEN [ kind |-> "stop", raw |-> r ]
    ELSE [ kind |-> "block",
           raw |-> [ r EXCEPT !.cur_offset =
                                r.cur_offset + FrameHeaderLen + BlockRawSize(b.block.hash),
                              !.made = b.block.oid ],
           block |-> b.block,
           filepos |-> [ filename |-> r.cur_filename, offset |-> r.cur_offset ] ]

\* the second deserialize_block, on the blob read again
RawRetry(r2) ==
    RawReturn(r2, deserialize_block(r2.cur_blob, r2.cur_offset, r2.made + 1))

\* after the first deserialize_block gave b1
RawFirstTry(r, d, refresh, b1) ==
    IF b1.kind = "none" /\ refresh THEN RawRetry(RereadBlob(r, d))
    ELSE RawReturn(r, b1)

\* the part of __next__ after the blob is chosen
RawParse(r, d, refresh) ==
    RawFirstTry(r, d, refresh, deserialize_block(r.cur_blob, r.cur_offset, r.made + 1))

\* _read_next_blob, given the outcome f of the RawDataIterator
RawReadNextBlob(r, d, refresh, f) ==
    IF f.kind = "stop"
    THEN [ kind |-> "stop", raw |-> [ r EXCEPT !.rf = f.rf ] ]
    ELSE RawParse([ r EXCEPT !.rf = f.rf,
                             !.cur_blob = get_data(d, f.name),
                             !.cur_filename = f.name,
                             !.cur_offset = 0 ],
                  d, refresh)

\* RawFileBlockIterator.__next__
RawNext(r, d, refresh) ==
    IF r.cur_offset >= BlobLen(r.cur_blob)
    THEN RawReadNextBlob(r, d, refresh, RawFilesNext(r.rf, d, refresh))
    ELSE RawParse(r, d, refresh)

\* ------------------------------------------------ TopologicalBlockIterator
\* t = [height_by_hash, orphans, ready]
TopoInit ==
    [ height_by_hash |-> [ x \in {GENESIS_PREV_BLOCK_HASH} |-> PreGenesisHeight ],
      orphans |-> EmptyDict,
      ready |-> << >> ]

\* _disorphanate_block
DisorphanateBlock(t, child_block, height) ==
    [ t EXCEPT !.height_by_hash = DictSet(t.height_by_hash, child_block.hash, height),
               !.ready = Append(t.ready, [ child_block EXCEPT !.height = height ]) ]

RECURSIVE DisorphanateAll(_, _, _)
DisorphanateAll(t, children, child_height) ==
    IF children = << >> THEN t
    ELSE DisorphanateAll(DisorphanateBlock(t, Head(children), child_height),
                         Tail(children), child_height)

\* mutant: the children get the height of their parent
DisorphanateChildrenSameHeight(t, block) ==
    IF block.hash \in DOMAIN t.orphans
    THEN DisorphanateAll([ t EXCEPT !.orphans = DictDel(t.orphans, block.hash) ],
                         t.orphans[block.hash], block.height)
    ELSE t

\* mutant: the children are made ready and stay in the orphan map
DisorphanateChildrenKept(t, block) ==
    IF block.hash \in DOMAIN t.orphans
    THEN DisorphanateAll(t, t.orphans[block.hash], block.height + 1)
    ELSE t

\* _disorphanate_children_of
DisorphanateChildrenOf(t, block) ==
    IF block.hash \in DOMAIN t.orphans
    THEN DisorphanateAll([ t EXCEPT !.orphans = DictDel(t.orphans, block.hash) ],
                         t.orphans[block.hash], block.height + 1)
    ELSE t

\* mutant: a block whose prev is unknown is made ready at once
TopoIngestNoOrphans(t, block) ==
    DisorphanateBlock(t, block,
                      IF block.prev \in DOMAIN t.height_by_hash
                      THEN t.height_by_hash[block.prev] + 1 ELSE 0)

\* TopologicalBlockIterator._read_another_block, given the upstream block
TopoIngest(t, block) ==
    IF block.prev \in DOMAIN t.height_by_hash
    THEN DisorphanateBlock(t, block, t.height_by_hash[block.prev] + 1)
    ELSE [ t EXCEPT !.orphans =
             DictSet(t.orphans, block.prev,
                     IF block.prev \in DOMAIN t.orphans
                     THEN Append(t.orphans[block.prev], block)
                     ELSE << block >>) ]

\* mutant: the released block's children stay orphans
TopoReleaseAlone(t) ==
    [ block |-> Head(t.ready), topo |-> [ t EXCEPT !.ready = Tail(t.ready) ] ]

\* TopologicalBlockIterator._get_next_block_to_release
TopoRelease(t) ==
    LET block == Head(t.ready)
    IN  [ block |-> block,
          topo |-> DisorphanateChildrenOf([ t EXCEPT !.ready = Tail(t.ready) ], block) ]

\* TopologicalBlockIterator.__next__: pull upstream until a block is ready.
\* pulled collects the StoredBlocks obtained from upstream during the call.
RECURSIVE TopoNextLoop(_, _, _, _, _)
\* the return of __next__ with the block released
TopoReturn(rel, r, pulled) ==
    [ kind |-> "block", block |-> rel.block, topo |-> rel.topo,
      raw |-> r, pulled |-> pulled ]

\* one pass of the loop, given the outcome n of the upstream __next__
TopoPulled(t, d, refresh, pulled, n) ==
    IF n.kind = "stop"
    THEN [ kind |-> "stop", topo |-> t, raw |-> n.raw, pulled |-> pulled ]
    ELSE TopoNextLoop(TopoIngest(t, n.block), n.raw, d, refresh,
                      Append(pulled, [ hash |-> n.block.hash, filepos |-> n.filepos ]))

TopoNextLoop(t, r, d, refresh, pulled) ==
    IF t.ready # << >>
    THEN TopoReturn(TopoRelease(t), r, pulled)
    ELSE TopoPulled(t, d, refresh, pulled, RawNext(r, d, refresh))

TopoNext(t, r, d, refresh) == TopoNextLoop(t, r, d, refresh, << >>)

\* ----------------------------------------------------------- BlockFilter
\* BlockFilter._check: "T" (include), "F" (before start), "S" (StopIteration)
Check(value, boundaries, is_started, is_ordered) ==
    LET start == boundaries[1]
        stop == boundaries[2]
    IN  IF start # NoneVal /\ ~is_started
           /\ (IF is_ordered THEN value < start ELSE value # start)
        THEN "F"
        ELSE IF stop # NoneVal /\ is_started
                /\ (IF is_ordered THEN value >= stop ELSE value = stop)
             THEN "S"
             ELSE "T"

\* BlockFilter.__init__ keeps a criterion only when one of its bounds is given
IsSet(boundaries) == boundaries[1] # NoneVal \/ boundaries[2] # NoneVal

\* BlockFilter.check_block
FilterCheckBlock(f, block, is_started) ==
    LET c1 == IF IsSet(f.block_height)
              THEN Check(block.height, f.block_height, is_started, TRUE) ELSE "T"
        c2 == IF IsSet(f.block_time)
              THEN Check(TimeOf(block.hash), f.block_time, is_started, TRUE) ELSE "T"
        c3 == IF IsSet(f.block_hash)
              THEN Check(block.hash, f.block_hash, is_started, FALSE) ELSE "T"
    IN  IF c1 # "T" THEN c1
        ELSE IF c2 # "T" THEN c2
        ELSE c3

\* _WorkingBlockFilter.check_block after the filter answered c
WorkingChecked(l, c) ==
    IF c = "S" THEN [ kind |-> "S", lc |-> [ l EXCEPT !.is_ended = TRUE ] ]
    ELSE IF c = "T" THEN [ kind |-> "T", lc |-> [ l EXCEPT !.is_started = TRUE ] ]
    ELSE [ kind |-> "F", lc |-> l ]

\* mutant: check_block without the test of is_ended
WorkingCheckBlockForgetful(l, f, block) ==
    WorkingChecked(l, FilterCheckBlock(f, block, l.is_started))

\* _WorkingBlockFilter.check_block on the filter state kept in l
WorkingCheckBlock(l, f, block) ==
    IF l.is_ended THEN [ kind |-> "S", lc |-> l ]
    ELSE WorkingChecked(l, FilterCheckBlock(f, block, l.is_started))

\* LongestChainBlockIterator._check_block
CheckBlock(l, c, block) ==
    IF ~c.has_filter THEN [ kind |-> "T", lc |-> l ]
    ELSE WorkingCheckBlock(l, c.filter, block)

NoFilter ==
    [ block_height |-> << NoneVal, NoneVal >>,
      block_time |-> << NoneVal, NoneVal >>,
      block_hash |-> << NoneVal, NoneVal >> ]

\* ------------------------------------------------ LongestChainBlockIterator
\* _DUMMY_PRE_GENESIS_BLOCK: a Bunch with height and block_hash only; prev is
\* NoneVal because the object has no prev_block_hash attribute.  It is made
\* once, with the class: oid 0.
DummyPreGenesisBlock ==
    [ hash |-> GENESIS_PREV_BLOCK_HASH, prev |-> NoneVal,
      height |-> PreGenesisHeight, gen |-> 0, oid |-> 0 ]

\* Python's "is": the same object, whatever the two objects hold.  An object
\* is known by the number it was made under and by the generation of the
\* object graph it was loaded into.
SameObject(a, b) == a.oid = b.oid /\ a.gen = b.gen

LCInit ==
    [ root_block |-> DummyPreGenesisBlock,
      last_block |-> DummyPreGenesisBlock,
      blocks_by_hash |-> [ x \in {GENESIS_PREV_BLOCK_HASH} |-> DummyPreGenesisBlock ],
      block_children |-> [ x \in {GENESIS_PREV_BLOCK_HASH} |-> << >> ],
      leaf_heights |-> << PreGenesisHeight >>,
      is_started |-> FALSE,
      is_ended |-> FALSE ]

\* _check_heights_gap: height1 - height2
HeightsGap(l) ==
    LET lh == l.leaf_heights
        height1 == Last(lh)
        height2 == IF Len(lh) >= 2 THEN lh[Len(lh) - 1] ELSE l.root_block.height
    IN  height1 - height2

\* mutant: a lead of margin - 1 is taken for enough
CheckHeightsGapOffByOne(l, margin) ==
    IF HeightsGap(l) < 0 THEN "AssertionError"
    ELSE IF HeightsGap(l) >= margin - 1 THEN "yes"
    ELSE "no"

\* mutant: the lead has to exceed the margin
CheckHeightsGapStrict(l, margin) ==
    IF HeightsGap(l) < 0 THEN "AssertionError"
    ELSE IF HeightsGap(l) > margin THEN "yes"
    ELSE "no"

\* _check_heights_gap
CheckHeightsGap(l, margin) ==
    IF HeightsGap(l) < 0 THEN "AssertionError"
    ELSE IF HeightsGap(l) >= margin THEN "yes"
    ELSE "no"

\* mutant: the walk back to the root is left out
FindChildFromNoWalk(block, root_block, blocks_by_hash) ==
    IF block.prev = NoneVal THEN [ kind |-> "error", err |-> "AttributeError" ]
    ELSE [ kind |-> "ok", block |-> block ]

\* _find_child_from
RECURSIVE FindChildFrom(_, _, _)
FindChildFrom(block, root_block, blocks_by_hash) ==
    IF block.prev = NoneVal THEN [ kind |-> "error", err |-> "AttributeError" ]
    ELSE IF block.prev = root_block.hash THEN [ kind |-> "ok", block |-> block ]
    ELSE IF block.prev \notin DOMAIN blocks_by_hash
         THEN [ kind |-> "error", err |-> "KeyError" ]
         ELSE FindChildFrom(blocks_by_hash[block.prev], root_block, blocks_by_hash)

\* mutant: the height of a discarded leaf stays in _leaf_heights
DiscardBlockKeepsLeaf(l, block) ==
    IF block.hash \notin DOMAIN l.blocks_by_hash \/ block.hash \notin DOMAIN l.block_children
    THEN [ kind |-> "error", err |-> "KeyError", lc |-> l ]
    ELSE [ kind |-> "ok", children |-> l.block_children[block.hash],
           lc |-> [ l EXCEPT !.blocks_by_hash = DictDel(l.blocks_by_hash, block.hash),
                             !.block_children = DictDel(l.block_children, block.hash) ] ]

\* _discard_block once both dicts gave up the block: for a leaf, rm is the
\* outcome of _leaf_heights.remove
DiscardedLeaf(l, children, rm) ==
    IF children # << >> THEN [ kind |-> "ok", children |-> children, lc |-> l ]
    ELSE IF rm.kind # "ok" THEN [ kind |-> "error", err |-> rm.kind, lc |-> l ]
    ELSE [ kind |-> "ok", children |-> children,
           lc |-> [ l EXCEPT !.leaf_heights = rm.list ] ]

\* _discard_block: the children of the block are returned; a pop of a key that
\* is not there raises KeyError, the removal of a height that is not there
\* ValueError, and what was done before stays done
DiscardBlock(l, block) ==
    IF block.hash \notin DOMAIN l.blocks_by_hash
    THEN [ kind |-> "error", err |-> "KeyError", lc |-> l ]
    ELSE IF block.hash \notin DOMAIN l.block_children
    THEN [ kind |-> "error", err |-> "KeyError",
           lc |-> [ l EXCEPT !.blocks_by_hash = DictDel(l.blocks_by_hash, block.hash) ] ]
    ELSE DiscardedLeaf([ l EXCEPT !.blocks_by_hash = DictDel(l.blocks_by_hash, block.hash),
                                  !.block_children = DictDel(l.block_children, block.hash) ],
                       l.block_children[block.hash],
                       SortedRemove(l.leaf_heights, block.height))

\* mutant: _discard_tree spares every child of the old root
DoomedChildrenNone(children, survivor) == << >>

\* the children the outermost _discard_tree descends into: all but the
\* survivor, told by identity
DoomedChildren(children, survivor) ==
    SelectSeq(children, LAMBDA c : ~SameObject(c, survivor))

\* _discard_tree(child) on each block of todo in turn, depth first: below the
\* first level no survivor is passed on, so every descendant is discarded
RECURSIVE DiscardTreeRec(_, _)
\* the walk once _discard_block answered d for the head of the list
DiscardTreeStep(d, rest) ==
    IF d.kind = "error" THEN [ kind |-> "error", err |-> d.err, lc |-> d.lc ]
    ELSE DiscardTreeRec(d.lc, d.children \o rest)

DiscardTreeRec(l, todo) ==
    IF todo = << >> THEN [ kind |-> "ok", lc |-> l ]
    ELSE DiscardTreeStep(DiscardBlock(l, Head(todo)), Tail(todo))

\* mutant: only the old root is discarded, not the subtrees of its children
DiscardTreeShallow(l, block, survivor_child) == DiscardBlock(l, block)

\* _discard_tree once _discard_block answered d for the block itself
DiscardTreeBelow(d, survivor_child) ==
    IF d.kind = "error" THEN [ kind |-> "error", err |-> d.err, lc |-> d.lc ]
    ELSE DiscardTreeRec(d.lc, DoomedChildren(d.children, survivor_child))

\* _discard_tree(block, survivor_child)
DiscardTree(l, block, survivor_child) ==
    DiscardTreeBelow(DiscardBlock(l, block), survivor_child)

\* _get_next_block_to_release once _discard_tree answered d
ReleasedChild(block, d) ==
    IF d.kind = "error" THEN [ kind |-> "error", err |-> d.err, lc |-> d.lc ]
    ELSE [ kind |-> "block", block |-> block, lc |-> d.lc ]

\* _get_next_block_to_release once _find_child_from answered f
ReleaseChild(l, f) ==
    IF f.kind = "error" THEN [ kind |-> "error", err |-> f.err, lc |-> l ]
    ELSE ReleasedChild(f.block, DiscardTree(l, l.root_block, f.block))

\* _get_next_block_to_release once _check_heights_gap answered gap
ReleaseAfterGap(l, gap) ==
    IF gap = "AssertionError" THEN [ kind |-> "error", err |-> "AssertionError", lc |-> l ]
    ELSE IF gap = "no" THEN [ kind |-> "none" ]
    ELSE IF l.last_block.height # Last(l.leaf_heights)
         THEN [ kind |-> "error", err |-> "AssertionError", lc |-> l ]
         ELSE ReleaseChild(l, FindChildFrom(l.last_block, l.root_block, l.blocks_by_hash))

\* mutant: the first child of the root is released, whatever branch leads
GetNextBlockFirstChild(l, margin) ==
    LET gap == CheckHeightsGap(l, margin)
        children == l.block_children[l.root_block.hash]
    IN  IF gap = "AssertionError"
        THEN [ kind |-> "error", err |-> "AssertionError", lc |-> l ]
        ELSE IF gap = "no" \/ children = << >> THEN [ kind |-> "none" ]
        ELSE ReleasedChild(Head(children), DiscardTree(l, l.root_block, Head(children)))

\* _get_next_block_to_release
GetNextBlockToRelease(l, margin) == ReleaseAfterGap(l, CheckHeightsGap(l, margin))

\* __next__ after _check_block answered chk for the block released
LCChecked(block, chk) ==
    [ kind |-> IF chk.kind = "T" THEN "return"
               ELSE IF chk.kind = "S" THEN "stop" ELSE "read",
      lc |-> chk.lc, block |-> block, released |-> << block >> ]

\* __next__ after _get_next_block_to_release answered g: the block becomes
\* the root and goes through _check_block
LCReleased(l, c, g) ==
    IF g.kind = "error"
    THEN [ kind |-> "error", err |-> g.err, lc |-> g.lc, released |-> << >> ]
    ELSE IF g.kind = "none" THEN [ kind |-> "read", lc |-> l, released |-> << >> ]
    ELSE LCChecked(g.block, CheckBlock([ g.lc EXCEPT !.root_block = g.block ], c, g.block))

\* one pass of the loop of __next__ up to the call of _read_another_block:
\* "return" (a block), "stop" (StopIteration of the filter), "error", or
\* "read" (fall through to _read_another_block)
LCReleaseStep(l, c) == LCReleased(l, c, GetNextBlockToRelease(l, c.margin))

\* _read_another_block once the block is in the child list of its parent: rm
\* is the outcome of leaf_heights.remove, called when the parent was a leaf;
\* its ValueError leaves the block added and _leaf_heights as it was
LCIngestLeaf(l, block, is_prev_leaf, rm) ==
    IF is_prev_leaf /\ rm.kind # "ok"
    THEN [ kind |-> "error", err |-> rm.kind, lc |-> l ]
    ELSE [ kind |-> "added",
           lc |-> [ l EXCEPT !.leaf_heights =
                        SortedAdd(IF is_prev_leaf THEN rm.list ELSE l.leaf_heights,
                                  block.height) ] ]

\* _read_another_block, the update of the data structures: l holds the block
\* as _last_block and in _blocks_by_hash, bc1 is _block_children with the
\* empty child list of the block
LCIngestAdd(l, block, bc1) ==
    IF block.prev \notin DOMAIN bc1
    THEN [ kind |-> "error", err |-> "KeyError", lc |-> [ l EXCEPT !.block_children = bc1 ] ]
    ELSE LCIngestLeaf([ l EXCEPT !.block_children =
                            DictSet(bc1, block.prev, Append(bc1[block.prev], block)) ],
                      block, bc1[block.prev] = << >>,
                      SortedRemove(l.leaf_heights, block.height - 1))

\* mutant: a block whose parent is not in the tree still becomes _last_block
LCIngestKeepsLast(l, block) ==
    IF block.prev \notin DOMAIN l.blocks_by_hash
    THEN [ kind |-> "ignored", lc |-> [ l EXCEPT !.last_block = block ] ]
    ELSE IF l.blocks_by_hash[block.prev].height + 1 # block.height
    THEN [ kind |-> "error", err |-> "AssertionError", lc |-> l ]
    ELSE LCIngestAdd([ l EXCEPT !.last_block = block,
                                !.blocks_by_hash = DictSet(l.blocks_by_hash, block.hash, block) ],
                     block, DictSet(l.block_children, block.hash, << >>))

\* LongestChainBlockIterator._read_another_block, given the upstream block
LCIngest(l, block) ==
    IF block.prev \notin DOMAIN l.blocks_by_hash
    THEN [ kind |-> "ignored", lc |-> l ]
    ELSE IF l.blocks_by_hash[block.prev].height + 1 # block.height
    THEN [ kind |-> "error", err |-> "AssertionError", lc |-> l ]
    ELSE LCIngestAdd([ l EXCEPT !.last_block = block,
                                !.blocks_by_hash = DictSet(l.blocks_by_hash, block.hash, block) ],
                     block, DictSet(l.block_children, block.hash, << >>))

\* _read_another_block: the outcome i of the update for the block fetched
LCIngested(n, i) ==
    [ kind |-> i.kind, lc |-> i.lc, topo |-> n.topo, raw |-> n.raw,
      pulled |-> n.pulled, got |-> << n.block >>,
      err |-> IF i.kind = "error" THEN i.err ELSE "" ]

\* mutant: the end of the upstream data forgets _last_block
LCFetchedForgetful(l, n) ==
    IF n.kind = "stop"
    THEN [ kind |-> "stop", lc |-> [ l EXCEPT !.last_block = DummyPreGenesisBlock ],
           topo |-> n.topo, raw |-> n.raw, pulled |-> n.pulled, got |-> << >> ]
    ELSE LCIngested(n, LCIngest(l, n.block))

\* _read_another_block: n is the outcome of block_iter.__next__
LCFetched(l, n) ==
    IF n.kind = "stop"
    THEN [ kind |-> "stop", lc |-> l, topo |-> n.topo, raw |-> n.raw,
           pulled |-> n.pulled, got |-> << >> ]
    ELSE LCIngested(n, LCIngest(l, n.block))

\* _read_another_block with its call of the topological iterator
LCReadStep(l, t, r, d, refresh) == LCFetched(l, TopoNext(t, r, d, refresh))

\* what one or more __next__ calls handed out, layer by layer
NoOutput == [ pulled |-> << >>, got |-> << >>, released |-> << >>,
              emitted |-> << >>, txs |-> << >> ]

\* the outputs with those of a pass up to _read_another_block added
AddReleased(acc, s) == [ acc EXCEPT !.released = @ \o s.released ]

\* the outputs with those of a _read_another_block added
AddRead(acc, rd) == [ acc EXCEPT !.pulled = @ \o rd.pulled, !.got = @ \o rd.got ]

\* the outputs with those of a LongestChainBlockIterator.__next__ added
AddBlockOut(acc, o) ==
    [ acc EXCEPT !.pulled = @ \o o.pulled, !.got = @ \o o.got,
                 !.released = @ \o o.released, !.emitted = @ \o o.emitted ]

\* LongestChainBlockIterator.__next__, the whole loop
RECURSIVE LCNextLoop(_, _, _, _, _, _)
\* the loop after _read_another_block: its exception ends the call
LCAfterRead(d, c, acc, rd) ==
    IF rd.kind = "stop"
    THEN [ kind |-> "StopIteration", lc |-> rd.lc, topo |-> rd.topo,
           raw |-> rd.raw, out |-> AddRead(acc, rd) ]
    ELSE IF rd.kind = "error"
    THEN [ kind |-> rd.err, lc |-> rd.lc, topo |-> rd.topo,
           raw |-> rd.raw, out |-> AddRead(acc, rd) ]
    ELSE LCNextLoop(rd.lc, rd.topo, rd.raw, d, c, AddRead(acc, rd))

\* the loop after the pass s up to _read_another_block
LCAfterRelease(t, r, d, c, acc, s) ==
    IF s.kind = "return"
    THEN [ kind |-> "block", block |-> s.block, lc |-> s.lc, topo |-> t, raw |-> r,
           out |-> [ AddReleased(acc, s) EXCEPT !.emitted = Append(@, s.block) ] ]
    ELSE IF s.kind = "stop"
    THEN [ kind |-> "StopIteration", lc |-> s.lc, topo |-> t, raw |-> r,
           out |-> AddReleased(acc, s) ]
    ELSE IF s.kind = "error"
    THEN [ kind |-> s.err, lc |-> s.lc, topo |-> t, raw |-> r,
           out |-> AddReleased(acc, s) ]
    ELSE LCAfterRead(d, c, AddReleased(acc, s),
                     LCReadStep(s.lc, t, r, d, c.refresh))

LCNextLoop(l, t, r, d, c, acc) == LCAfterRelease(t, r, d, c, acc, LCReleaseStep(l, c))

\* ---------------------------------------------- BlockTxsIterator, TxIterator
\* len(blob) of a block's serialized transactions
TxBlobLen(txs) == SumSeq([ i \in 1..Len(txs) |-> txs[i].rawsize ])

\* deserialize_tx(blob[offset:]): the transaction serialized at offset; bytes
\* that do not start a transaction do not parse
RECURSIVE deserialize_tx(_, _)
deserialize_tx(txs, offset) ==
    IF txs = << >> \/ offset < 0 THEN [ kind |-> "garbage" ]
    ELSE IF offset = 0 THEN [ kind |-> "tx", tx |-> Head(txs) ]
    ELSE deserialize_tx(Tail(txs), offset - Head(txs).rawsize)

\* TxIterator.__init__: the two options, and _block_txs = iter(())
TxInitWith(include_block_context, include_tx_blob) ==
    [ gen |-> 0, block_txs |-> [ kind |-> "empty" ],
      include_block_context |-> include_block_context,
      include_tx_blob |-> include_tx_blob ]

\* TxIterator() with the default options
TxInit == TxInitWith(FALSE, FALSE)

\* BlockTxsIterator.__init__: blob is a view of the serialized transactions
\* txs, num_txs the count the caller read from the varint before them
BlockTxsIteratorInit(txs, num_txs, block, include_block_context, include_tx_blob) ==
    [ kind |-> "block",
      blob |-> [ type |-> "memoryview", txs |-> txs ],
      block |-> block,
      num_txs |-> num_txs,
      include_block_context |-> include_block_context,
      include_tx_blob |-> include_tx_blob,
      offset |-> 0,
      tx_idx |-> 0 ]

\* BlockTxs.iter_txs(include_block_context, **kwargs): a BlockTxsIterator
\* over the bytes after the varint; kwargs carries include_tx_blob
iter_txs(block, include_block_context, include_tx_blob) ==
    BlockTxsIteratorInit(TxsOf(block.hash), NumTxsOf(block.hash), block,
                         include_block_context, include_tx_blob)

\* BlockTxs.iter_txs_in_block(**kwargs): returns
\* self.iter_txs(include_block_context = True); the kwargs are not passed on
iter_txs_in_block(block, include_tx_blob) == iter_txs(block, TRUE, FALSE)

\* TxIterator._get_iter_of_next_block once block_iter returned block
GetIterOfNextBlock(x, block) ==
    IF x.include_block_context
    THEN iter_txs_in_block(block, x.include_tx_blob)
    ELSE iter_txs(block, FALSE, x.include_tx_blob)

\* deserialize_tx(blob, include_blob): with include_blob the Tx keeps the
\* slice of its own bytes (here: its length)
WithBlob(tx, include_blob) ==
    IF include_blob
    THEN [ txid |-> tx.txid, rawsize |-> tx.rawsize, blob |-> tx.rawsize ]
    ELSE tx

\* TxInBlock(tx, block, index)
TxInBlock(tx, block, index) == [ tx |-> tx, block |-> block, index |-> index ]

\* TxInBlock.__getattr__ forwards to the Tx it wraps
TxOf(t) == IF "tx" \in DOMAIN t THEN t.tx ELSE t

\* BlockTxsIterator._make_tx on the transaction parsed at the offset
MakeTx(bt, tx, idx_in_block) ==
    IF bt.include_block_context
    THEN TxInBlock(WithBlob(tx, bt.include_tx_blob), bt.block, idx_in_block)
    ELSE WithBlob(tx, bt.include_tx_blob)

\* mutant: the iterator ends one transaction before the end of the block
BlockTxsNextEndsEarly(bt) ==
    IF bt.kind = "empty" \/ bt.tx_idx >= bt.num_txs - 1
    THEN [ kind |-> "StopIteration", bt |-> bt ]
    ELSE [ kind |-> "tx",
           tx |-> MakeTx(bt, deserialize_tx(bt.blob.txs, bt.offset).tx, bt.tx_idx),
           bt |-> [ bt EXCEPT !.tx_idx = @ + 1,
                              !.offset = @ + deserialize_tx(bt.blob.txs, bt.offset).tx.rawsize ] ]

\* mutant: the end of the block is signalled without the check of the offset
BlockTxsNextUnchecked(bt) ==
    IF bt.kind = "empty" \/ bt.tx_idx >= bt.num_txs
    THEN [ kind |-> "StopIteration", bt |-> bt ]
    ELSE IF deserialize_tx(bt.blob.txs, bt.offset).kind = "garbage"
    THEN [ kind |-> "ParseError", bt |-> bt ]
    ELSE [ kind |-> "tx",
           tx |-> MakeTx(bt, deserialize_tx(bt.blob.txs, bt.offset).tx, bt.tx_idx),
           bt |-> [ bt EXCEPT !.tx_idx = @ + 1,
                              !.offset = @ + deserialize_tx(bt.blob.txs, bt.offset).tx.rawsize ] ]

\* BlockTxsIterator.__next__ (StopIteration at once for the empty iterator)
BlockTxsNext(bt) ==
    IF bt.kind = "empty" THEN [ kind |-> "StopIteration", bt |-> bt ]
    ELSE IF bt.tx_idx >= bt.num_txs
    THEN [ kind |-> IF bt.offset = TxBlobLen(bt.blob.txs)
                    THEN "StopIteration" ELSE "AssertionError",
           bt |-> bt ]
    ELSE LET p == deserialize_tx(bt.blob.txs, bt.offset)
         IN  IF p.kind = "garbage" THEN [ kind |-> "ParseError", bt |-> bt ]
             ELSE [ kind |-> "tx", tx |-> MakeTx(bt, p.tx, bt.tx_idx),
                    bt |-> [ bt EXCEPT !.tx_idx = @ + 1, !.offset = @ + p.tx.rawsize ] ]

\* TxIterator.__next__, the whole loop
RECURSIVE TxNextLoop(_, _, _, _, _, _, _)
\* _get_iter_of_next_block, given the outcome b of block_iter.__next__
TxAfterBlock(x, d, c, acc, b) ==
    IF b.kind # "block"
    THEN [ kind |-> b.kind, txit |-> x, lc |-> b.lc, topo |-> b.topo,
           raw |-> b.raw, out |-> AddBlockOut(acc, b.out) ]
    ELSE TxNextLoop([ x EXCEPT !.block_txs = GetIterOfNextBlock(x, b.block) ],
                    b.lc, b.topo, b.raw, d, c, AddBlockOut(acc, b.out))

\* the loop after _block_txs.__next__ answered n
TxAfterTry(x, l, t, r, d, c, acc, n) ==
    IF n.kind = "tx"
    THEN [ kind |-> "tx", tx |-> n.tx, txit |-> [ x EXCEPT !.block_txs = n.bt ],
           lc |-> l, topo |-> t, raw |-> r,
           out |-> [ acc EXCEPT !.txs = Append(@, n.tx) ] ]
    ELSE IF n.kind # "StopIteration"
    THEN [ kind |-> n.kind, txit |-> x, lc |-> l, topo |-> t, raw |-> r, out |-> acc ]
    ELSE TxAfterBlock(x, d, c, acc, LCNextLoop(l, t, r, d, c, NoOutput))

TxNextLoop(x, l, t, r, d, c, acc) ==
    TxAfterTry(x, l, t, r, d, c, acc, BlockTxsNext(x.block_txs))

\* ------------------------------------------------------------------ pickle
\* A pickled object graph is rebuilt from new objects; an object referenced
\* from several places is rebuilt once.  g is the generation of the new objects.
LoadBlock(b, g) == [ b EXCEPT !.gen = g ]

LoadBlocks(s, g) == [ i \in 1..Len(s) |-> LoadBlock(s[i], g) ]

\* mutant: the position inside the block is left out of the pickled state
GetStateWithoutOffset(bt) ==
    IF bt.kind = "empty" THEN bt
    ELSE [ bt EXCEPT !.blob = [ type |-> "bytearray", txs |-> bt.blob.txs ],
                     !.offset = 0 ]

\* BlockTxsIterator.__getstate__: the memoryview is copied into a bytearray
GetState(bt) ==
    IF bt.kind = "empty" THEN bt
    ELSE [ bt EXCEPT !.blob = [ type |-> "bytearray", txs |-> bt.blob.txs ] ]

\* pickle.loads(pickle.dumps(iterator)) for each iterator of the pipeline
PickleRaw(r) == r

PickleTopo(t, g) ==
    [ t EXCEPT !.orphans = [ h \in DOMAIN t.orphans |-> LoadBlocks(t.orphans[h], g) ],
               !.ready = LoadBlocks(t.ready, g) ]

PickleLC(l, g) ==
    [ l EXCEPT !.root_block = LoadBlock(l.root_block, g),
               !.last_block = LoadBlock(l.last_block, g),
               !.blocks_by_hash = [ h \in DOMAIN l.blocks_by_hash |->
                                      LoadBlock(l.blocks_by_hash[h], g) ],
               !.block_children = [ h \in DOMAIN l.block_children |->
                                      LoadBlocks(l.block_children[h], g) ] ]

PickleTx(x, g) ==
    LET s == GetState(x.block_txs)
    IN  [ x EXCEPT !.gen = g,
                   !.block_txs = IF s.kind = "empty" THEN s
                                 ELSE [ s EXCEPT !.block = LoadBlock(s.block, g) ] ]

\* ------------------------------------------------------------ the node
\* every frame stored so far, in storage order
RECURSIVE AllFrames(_)
AllFrames(d) == IF d = << >> THEN << >> ELSE Head(d).frames \o AllFrames(Tail(d))

StoredHashes(d) == { f.hash : f \in Range(AllFrames(d)) }

PrevOf(d, h) == (CHOOSE f \in Range(AllFrames(d)) : f.hash = h).prev

\* does following prev pointers of stored blocks from x reach b
RECURSIVE Reaches(_, _, _, _)
Reaches(d, x, b, fuel) ==
    IF x = b THEN TRUE
    ELSE IF fuel = 0 \/ x \notin StoredHashes(d) THEN FALSE
    ELSE Reaches(d, PrevOf(d, x), b, fuel - 1)

\* the last file after one more frame is written into it
WriteFrame(d, f) ==
    LET n == Len(d)
        file == d[n]
    IN  [ d EXCEPT ![n] = [ frames |-> Append(file.frames, f),
                            pad |-> IF file.pad >= FrameSize(f)
                                    THEN file.pad - FrameSize(f) ELSE 0 ] ]

hist == << raw_out, topo_out, released, emitted, tx_out >>

\* the BlockChain, the set generator and the iterator with a glob pattern
later == << blockchain, bc_out, gen, stream, sets_out, datadir, globit >>

\* the state of the tailable adapter and of the spending tracker
aux == << files_out, tail, tracker, tracked_out, txs_gen, fed, later >>

\* bitcoind stores one more block: any parent, known or not, but no cycle
StoreBlock(max) ==
    /\ Len(AllFrames(disk)) < max
    /\ \E p \in 0..max :
         LET b == Len(AllFrames(disk)) + 1
         IN  /\ p # b
             /\ ~Reaches(disk, p, b, max)
             /\ disk' = WriteFrame(disk, [ hash |-> b, prev |-> p ])
    /\ UNCHANGED << cfg, raw, topo, lc, pc, result, txit, hist, aux >>

\* bitcoind stores the next block of a linear chain
StoreChainBlock(max) ==
    /\ Len(AllFrames(disk)) < max
    /\ LET b == Len(AllFrames(disk)) + 1
       IN  disk' = WriteFrame(disk, [ hash |-> b, prev |-> b - 1 ])
    /\ UNCHANGED << cfg, raw, topo, lc, pc, result, txit, hist, aux >>

\* -------------------------------- LongestChainBlockIterator.__next__ steps
Idle == [ kind |-> "idle" ]

\* the consumer calls __next__
LCCall ==
    /\ pc = "idle"
    /\ pc' = "release"
    /\ result' = [ kind |-> "running" ]
    /\ UNCHANGED << disk, cfg, raw, topo, lc, txit, hist, aux >>

\* the state after the pass s: the call returns, raises or goes on to read
LCReleaseDone(s) ==
    /\ lc' = s.lc
    /\ released' = released \o s.released
    /\ emitted' = IF s.kind = "return" THEN Append(emitted, s.block) ELSE emitted
    /\ pc' = IF s.kind = "read" THEN "read" ELSE "idle"
    /\ result' = IF s.kind = "return" THEN [ kind |-> "block", hash |-> s.block.hash ]
                 ELSE IF s.kind = "stop" THEN [ kind |-> "StopIteration" ]
                 ELSE IF s.kind = "error" THEN [ kind |-> s.err ]
                 ELSE result

\* _get_next_block_to_release, the root update and the filter
LCRelease ==
    /\ pc = "release"
    /\ LCReleaseDone(LCReleaseStep(lc, cfg))
    /\ UNCHANGED << disk, cfg, raw, topo, raw_out, topo_out, txit, tx_out, aux >>

\* the state after _read_another_block: the loop goes on, or the call raises
LCReadDone(s) ==
    /\ lc' = s.lc
    /\ topo' = s.topo
    /\ raw' = s.raw
    /\ raw_out' = raw_out \o s.pulled
    /\ topo_out' = topo_out \o s.got
    /\ pc' = IF s.kind \in {"added", "ignored"} THEN "release" ELSE "idle"
    /\ result' = IF s.kind = "stop" THEN [ kind |-> "StopIteration" ]
                 ELSE IF s.kind = "error" THEN [ kind |-> s.err ]
                 ELSE result

\* _read_another_block
LCRead ==
    /\ pc = "read"
    /\ LCReadDone(LCReadStep(lc, topo, raw, disk, cfg.refresh))
    /\ UNCHANGED << disk, cfg, released, emitted, txit, tx_out, aux >>

\* ---------------------------------------------------------------- tailable
\* t = [stop, timeout, polling_interval, pc, now, start_time, wake] and the
\* history of the calls: called_at, stop_at_call, call_polls, calls,
\* slept_from, overslept, asleep_at_stop, polls_at_stop, calls_at_stop, out
MaxTime == 5

MaxCalls == 3

\* float('Inf'), the timeout when none is given: beyond any time of the clock
Inf == 1000000

DefaultPollingInterval == 5

\* tailable.__init__: the stop event is clear, no __next__ is running
TailInitWith(timeout, polling_interval) ==
    [ stop |-> FALSE, timeout |-> timeout, polling_interval |-> polling_interval,
      pc |-> "idle", now |-> 0, start_time |-> 0, wake |-> 0,
      called_at |-> 0, stop_at_call |-> FALSE, call_polls |-> 0, calls |-> 0,
      slept_from |-> 0, overslept |-> 0,
      asleep_at_stop |-> FALSE, polls_at_stop |-> 0, calls_at_stop |-> 0,
      out |-> << >> ]

TailInit == TailInitWith(Inf, DefaultPollingInterval)

\* __next__ is entered: start_time = time.time()
TailStart(t) ==
    [ t EXCEPT !.pc = "check", !.start_time = t.now,
               !.called_at = t.now, !.stop_at_call = t.stop,
               !.call_polls = 0, !.calls = t.calls + 1 ]

\* the loop condition: while not self._stop_event.is_set()
TailChecked(t) ==
    IF t.stop THEN [ kind |-> "stop", tail |-> [ t EXCEPT !.pc = "idle" ] ]
    ELSE [ kind |-> "poll", tail |-> [ t EXCEPT !.pc = "poll" ] ]

\* remaining_time = self.timeout - (time.time() - start_time)
RemainingTime(t) == t.timeout - (t.now - t.start_time)

\* mutant: the wait lasts all the remaining time
WaitTimeRemaining(t) ==
    IF t.timeout = Inf THEN t.polling_interval ELSE RemainingTime(t)

\* min(self.polling_interval, remaining_time)
WaitTime(t) ==
    IF t.polling_interval <= RemainingTime(t) THEN t.polling_interval
    ELSE RemainingTime(t)

\* mutant: the call gives up at the second end met in a row
TailPolledTwice(t, s) ==
    IF s.kind = "block"
    THEN [ kind |-> "block", block |-> s.block,
           tail |-> [ t EXCEPT !.pc = "idle", !.call_polls = t.call_polls + 1,
                               !.out = Append(t.out, s.block.hash) ] ]
    ELSE IF RemainingTime(t) <= 0 \/ t.call_polls >= 1
    THEN [ kind |-> "stop",
           tail |-> [ t EXCEPT !.pc = "idle", !.call_polls = t.call_polls + 1 ] ]
    ELSE [ kind |-> "sleep",
           tail |-> [ t EXCEPT !.pc = "sleep", !.call_polls = t.call_polls + 1,
                               !.slept_from = t.now, !.wake = t.now + WaitTime(t) ] ]

\* the body of the loop once next(self.iter) answered s: the element is
\* returned; on StopIteration the call times out or waits
TailPolled(t, s) ==
    IF s.kind = "block"
    THEN [ kind |-> "block", block |-> s.block,
           tail |-> [ t EXCEPT !.pc = "idle", !.call_polls = t.call_polls + 1,
                               !.out = Append(t.out, s.block.hash) ] ]
    ELSE IF RemainingTime(t) <= 0
    THEN [ kind |-> "stop",
           tail |-> [ t EXCEPT !.pc = "idle", !.call_polls = t.call_polls + 1 ] ]
    ELSE [ kind |-> "sleep",
           tail |-> [ t EXCEPT !.pc = "sleep", !.call_polls = t.call_polls + 1,
                               !.slept_from = t.now, !.wake = t.now + WaitTime(t) ] ]

\* mutant: a sleep that does not hear the stop event
WaitingDeaf(t) == t.now < t.wake

\* self._stop_event.wait(timeout) is still blocked: the event is clear and
\* the timeout has not passed
Waiting(t) == ~t.stop /\ t.now < t.wake

\* stop(): self._stop_event.set()
TailStopped(t) ==
    [ t EXCEPT !.stop = TRUE, !.asleep_at_stop = (t.pc = "sleep"),
               !.polls_at_stop = t.call_polls, !.calls_at_stop = t.calls ]

\* time passes; overslept counts the time slept after stop()
TailTicked(t) ==
    [ t EXCEPT !.now = t.now + 1,
               !.overslept = IF t.pc = "sleep" /\ t.stop THEN t.overslept + 1
                             ELSE t.overslept ]

\* ------------------------------------------------------ TxSpendingTracker
\* A transaction is the Tx that deserialize_tx returned, with the inputs and
\* the number of outputs parsed from its bytes, or the TxInBlock around it; an
\* input is [is_coinbase, spent_txid, spent_output_idx, spending_info].  The
\* UtxoSet maps the key << txid, vout >> to the info of that output.
MaxInputs == 2

MaxOutputs == 2

\* spending_info of an input nothing was resolved for (None)
NoInfo == [ txid |-> NoneVal, idx |-> NoneVal, block_height |-> NoneVal ]

\* no transaction processed yet
NoTx == [ txid |-> NoneVal, inputs |-> << >>, num_outputs |-> 0 ]

\* TxSpendingTracker.__init__: an empty UtxoSet; before, last and lookups
\* record the latest process_tx call
TrackerInit ==
    [ utxoset |-> EmptyDict, before |-> EmptyDict, last |-> NoTx, lookups |-> 0 ]

CoinbaseInput ==
    [ is_coinbase |-> TRUE, spent_txid |-> NoneVal, spent_output_idx |-> NoneVal,
      spending_info |-> NoInfo ]

TxInput(txid, idx) ==
    [ is_coinbase |-> FALSE, spent_txid |-> txid, spent_output_idx |-> idx,
      spending_info |-> NoInfo ]

\* the info kept for output idx of tx.  The height is the height of tx.block,
\* which a TxInBlock has; a Tx that comes without its block has no height to
\* record
OutputInfo(tx, idx) ==
    [ txid |-> TxOf(tx).txid, idx |-> idx,
      block_height |-> IF "block" \in DOMAIN tx THEN tx.block.height ELSE NoneVal ]

\* mutant: an output that is not there is passed over
UtxoSpendLenient(u, txid, idx) ==
    IF << txid, idx >> \in DOMAIN u
    THEN [ kind |-> "ok", info |-> u[<< txid, idx >>],
           utxoset |-> DictDel(u, << txid, idx >>) ]
    ELSE [ kind |-> "ok", info |-> NoInfo, utxoset |-> u ]

\* UtxoSet.spend: the output is removed and its info returned, or
\* UnknownOutput names the key that is not there
UtxoSpend(u, txid, idx) ==
    IF << txid, idx >> \in DOMAIN u
    THEN [ kind |-> "ok", info |-> u[<< txid, idx >>],
           utxoset |-> DictDel(u, << txid, idx >>) ]
    ELSE [ kind |-> "UnknownOutput", txid |-> txid, vout |-> idx, utxoset |-> u ]

\* UtxoSet.add_from_tx: every output of tx is inserted, an old entry overwritten
UtxoAddFromTx(u, tx) ==
    [ k \in DOMAIN u \cup { << TxOf(tx).txid, i >> : i \in 0..(TxOf(tx).num_outputs - 1) } |->
        IF k[1] = TxOf(tx).txid /\ k[2] \in 0..(TxOf(tx).num_outputs - 1)
        THEN OutputInfo(tx, k[2]) ELSE u[k] ]

\* tx once its inputs are the list given: the TxInput objects belong to the
\* Tx, also when a TxInBlock forwards tx.inputs to it
WithInputs(tx, inputs) ==
    IF "tx" \in DOMAIN tx THEN [ tx EXCEPT !.tx.inputs = inputs ]
    ELSE [ tx EXCEPT !.inputs = inputs ]

\* mutant: the info returned by spend is not set on the input
SetSpendingInfoNot(inputs, k, info) == inputs

\* txin.spending_info = spending_info
SetSpendingInfo(inputs, k, info) ==
    [ inputs EXCEPT ![k] = [ inputs[k] EXCEPT !.spending_info = info ] ]

\* _track_tx_spending, the loop over tx.inputs from input k on; n counts the
\* calls of utxoset.spend
RECURSIVE TrackInputs(_, _, _, _)
\* the loop once utxoset.spend answered s for input k
TrackSpent(inputs, k, n, s) ==
    IF s.kind # "ok"
    THEN [ kind |-> "UnknownOutput", txid |-> s.txid, vout |-> s.vout,
           inputs |-> inputs, utxoset |-> s.utxoset, lookups |-> n + 1 ]
    ELSE TrackInputs(SetSpendingInfo(inputs, k, s.info), k + 1, s.utxoset, n + 1)

TrackInputs(inputs, k, u, n) ==
    IF k > Len(inputs)
    THEN [ kind |-> "ok", inputs |-> inputs, utxoset |-> u, lookups |-> n ]
    ELSE IF inputs[k].is_coinbase
    THEN TrackInputs(inputs, k + 1, u, n)
    ELSE TrackSpent(inputs, k, n,
                    UtxoSpend(u, inputs[k].spent_txid, inputs[k].spent_output_idx))

\* mutant: the outputs of tx are inserted before its inputs are spent
TrackTxOutputsFirst(tx, u) ==
    LET r == TrackInputs(TxOf(tx).inputs, 1, UtxoAddFromTx(u, tx), 0)
    IN  IF r.kind # "ok" THEN r
        ELSE [ kind |-> "ok", tx |-> WithInputs(tx, r.inputs),
               utxoset |-> r.utxoset, lookups |-> r.lookups ]

\* _track_tx_spending once the loop over the inputs answered r
TrackTxAfterInputs(tx, r) ==
    IF r.kind # "ok" THEN r
    ELSE [ kind |-> "ok", tx |-> WithInputs(tx, r.inputs),
           utxoset |-> UtxoAddFromTx(r.utxoset, tx), lookups |-> r.lookups ]

\* _track_tx_spending
TrackTxSpending(tx, u) ==
    TrackTxAfterInputs(tx, TrackInputs(TxOf(tx).inputs, 1, u, 0))

\* TxSpendingTracker.process_tx, given the answer r of _track_tx_spending.
\* The inputs are updated in place, one by one: when UnknownOutput is raised
\* the transaction keeps the spending_info set on the inputs before the one
\* that failed.  last is the transaction as it was handed in.
ProcessedTx(k, tx, r) ==
    [ kind |-> r.kind,
      tracker |-> [ utxoset |-> r.utxoset, before |-> k.utxoset, last |-> tx,
                    lookups |-> r.lookups ],
      tx |-> IF r.kind = "ok" THEN r.tx ELSE WithInputs(tx, r.inputs),
      txid |-> IF r.kind = "ok" THEN NoneVal ELSE r.txid,
      vout |-> IF r.kind = "ok" THEN NoneVal ELSE r.vout ]

process_tx(k, tx) == ProcessedTx(k, tx, TrackTxSpending(tx, k.utxoset))

\* no generator of process_txs_gen has been made
TxsGenNone == [ at |-> "none", tx_iter |-> << >>, tx |-> NoTx ]

\* TxSpendingTracker.process_txs_gen(tx_iter), and __call__ which returns it:
\* a generator that has not started; tx_iter holds the transactions to come
process_txs_gen(tx_iter) == [ at |-> "start", tx_iter |-> tx_iter, tx |-> NoTx ]

\* next(generator) once process_tx answered p for the transaction taken from
\* tx_iter: the generator stops at its yield holding the transaction, or the
\* error leaves it and the generator is finished
TxsGenProcessed(g, p) ==
    [ kind |-> IF p.kind = "ok" THEN "yielded" ELSE p.kind,
      tx |-> p.tx, txid |-> p.txid, vout |-> p.vout,
      tracker |-> p.tracker,
      gen |-> [ at |-> IF p.kind = "ok" THEN "yield" ELSE "end",
                tx_iter |-> Tail(g.tx_iter),
                tx |-> IF p.kind = "ok" THEN p.tx ELSE NoTx ] ]

\* next(generator) for the generator g of the tracker k: the for statement
\* takes the next transaction of tx_iter, process_tx, yield; StopIteration
\* when tx_iter is exhausted or the generator is finished
TxsGenNext(g, k) ==
    IF g.at = "end" \/ g.tx_iter = << >>
    THEN [ kind |-> "StopIteration", tx |-> NoTx, txid |-> NoneVal, vout |-> NoneVal,
           tracker |-> k, gen |-> [ g EXCEPT !.at = "end", !.tx = NoTx ] ]
    ELSE TxsGenProcessed(g, process_tx(k, Head(g.tx_iter)))

\* ------------------------------------------------------------ BlockChain
\* BlockChain.__init__ without blocks: _blocks is an OrderedDict from
\* block_hash to BlockInfo, kept here as the sequence of its values in
\* insertion order; _height_to_hash is a dict
BlockChainInit == [ blocks |-> << >>, height_to_hash |-> EmptyDict ]

\* BlockInfo.from_block
BlockInfoFromBlock(block) ==
    [ block_hash |-> block.hash,
      height |-> block.height,
      timestamp |-> TimeOf(block.hash),
      num_txs |-> NumTxsOf(block.hash),
      rawsize |-> BlockRawSize(block.hash) ]

\* BlockChain.__len__ and BlockChain.height
BCLen(bc) == Len(bc.blocks)

BCHeight(bc) == BCLen(bc) - 1

\* BlockChain.contains_hash
BCContainsHash(bc, block_hash) ==
    \E i \in 1..Len(bc.blocks) : bc.blocks[i].block_hash = block_hash

\* the two assignments append ends with
BCAdd(bc, block) ==
    [ blocks |-> Append(bc.blocks, block),
      height_to_hash |-> DictSet(bc.height_to_hash, block.height, block.block_hash) ]

\* mutant: the height of the new block is not verified
BCAppendAnyHeight(bc, block) ==
    IF BCContainsHash(bc, block.block_hash)
    THEN [ kind |-> "ValueError", bc |-> bc ]
    ELSE [ kind |-> "ok", bc |-> BCAdd(bc, block) ]

\* mutant: the hash of the new block is not verified
BCAppendAnyHash(bc, block) ==
    IF block.height # BCHeight(bc) + 1
    THEN [ kind |-> "ValueError", bc |-> bc ]
    ELSE [ kind |-> "ok", bc |-> BCAdd(bc, block) ]

\* BlockChain.append
BCAppend(bc, block) ==
    IF block.height # BCHeight(bc) + 1
    THEN [ kind |-> "ValueError", bc |-> bc ]
    ELSE IF BCContainsHash(bc, block.block_hash)
    THEN [ kind |-> "ValueError", bc |-> bc ]
    ELSE [ kind |-> "ok", bc |-> BCAdd(bc, block) ]

\* BlockChain.extend: append one by one; the first append that raises ends it
RECURSIVE BCExtend(_, _)
BCExtendAfter(r, rest) ==
    IF r.kind # "ok" THEN r ELSE BCExtend(r.bc, rest)

BCExtend(bc, blocks) ==
    IF blocks = << >> THEN [ kind |-> "ok", bc |-> bc ]
    ELSE BCExtendAfter(BCAppend(bc, Head(blocks)), Tail(blocks))

\* BlockChain.clear
BCClear(bc) == BlockChainInit

\* BlockChain.pop: self._blocks.pop() is OrderedDict.pop without its required
\* key argument, which raises TypeError before anything is removed
BCPop(bc) == [ kind |-> "TypeError", bc |-> bc ]

\* BlockChain.get_by_hash and BlockChain.get_by_height
BCGetByHash(bc, block_hash) ==
    IF BCContainsHash(bc, block_hash)
    THEN [ kind |-> "ok",
           block |-> bc.blocks[CHOOSE i \in 1..Len(bc.blocks) :
                                  bc.blocks[i].block_hash = block_hash] ]
    ELSE [ kind |-> "KeyError" ]

BCGetByHeight(bc, height) ==
    IF height \in DOMAIN bc.height_to_hash
    THEN BCGetByHash(bc, bc.height_to_hash[height])
    ELSE [ kind |-> "KeyError" ]

\* BlockChainIterator.__next__ once next(block_iter) answered b and, for a
\* block, blockchain.append answered a
BCIterAppended(b, a) ==
    [ kind |-> IF a.kind = "ok" THEN "block" ELSE a.kind, block |-> b.block,
      bc |-> a.bc, lc |-> b.lc, topo |-> b.topo, raw |-> b.raw, out |-> b.out ]

BCIterAfterBlock(bc, b) ==
    IF b.kind # "block"
    THEN [ kind |-> b.kind, bc |-> bc, lc |-> b.lc, topo |-> b.topo,
           raw |-> b.raw, out |-> b.out ]
    ELSE BCIterAppended(b, BCAppend(bc, BlockInfoFromBlock(b.block)))

\* BlockChainIterator.__next__
BCIterNext(bc, l, t, r, d, c) ==
    BCIterAfterBlock(bc, LCNextLoop(l, t, r, d, c, NoOutput))

\* ------------------------------------------- IndependentTxSetGenerator
DEFAULT_MAX_SET_SIZE == 10000

DEFAULT_MAX_PENDING_SIZE == 500000

\* __init__, and the two dicts gen_sets starts with; a dict from txid to tx
\* is kept as the sequence of its values in insertion order, no two with the
\* same txid.  at is where the generator stands: "for" (at the for statement,
\* about to ask tx_iter), "yield" (suspended at yield txs, the consumer holds
\* the list) or "end" (returned or raised).
GenInit(max_set_size, max_pending_size) ==
    [ max_set_size |-> IF max_set_size = NoneVal
                       THEN DEFAULT_MAX_SET_SIZE ELSE max_set_size,
      max_pending_size |-> IF max_pending_size = NoneVal
                           THEN DEFAULT_MAX_PENDING_SIZE ELSE max_pending_size,
      next_set |-> << >>,
      pending |-> << >>,
      at |-> "for" ]

\* the keys of a dict from txid to tx
TxidsIn(txs) == { txs[i].txid : i \in 1..Len(txs) }

\* mutant: only next_set is looked at
IsTxReadyIgnoringPending(tx, next_set, pending) ==
    \A spent_txid \in tx.spends : spent_txid \notin TxidsIn(next_set)

\* _is_tx_ready; tx.spends holds the spent_txid of every input of tx
IsTxReady(tx, next_set, pending) ==
    \A spent_txid \in tx.spends :
        ~(spent_txid \in TxidsIn(pending) \/ spent_txid \in TxidsIn(next_set))

\* d[tx.txid] = tx: the value under a key that is there is replaced where it
\* stands, a new key comes last
WithTx(txs, tx) ==
    IF tx.txid \in TxidsIn(txs)
    THEN [ i \in 1..Len(txs) |-> IF txs[i].txid = tx.txid THEN tx ELSE txs[i] ]
    ELSE Append(txs, tx)

\* del pending[txid]: KeyError when the key is not there
WithoutTx(txs, txid) ==
    IF txid \notin TxidsIn(txs) THEN [ kind |-> "KeyError", dict |-> txs ]
    ELSE [ kind |-> "ok", dict |-> SelectSeq(txs, LAMBDA t : t.txid # txid) ]

\* _release_sets: the loop that transfers txs from pending to next_set, over
\* the copy todo of pending
RECURSIVE TransferPending(_, _)
\* the loop once tx is in next_set and del pending[txid] answered w
TransferMoved(g, rest, w) ==
    IF w.kind # "ok" THEN [ kind |-> w.kind, gen |-> g ]
    ELSE TransferPending([ g EXCEPT !.pending = w.dict ], rest)

TransferPending(g, todo) ==
    IF todo = << >> \/ Len(g.next_set) >= g.max_set_size THEN [ kind |-> "ok", gen |-> g ]
    ELSE IF IsTxReady(Head(todo), g.next_set, g.pending)
    THEN TransferMoved([ g EXCEPT !.next_set = WithTx(@, Head(todo)) ], Tail(todo),
                       WithoutTx(g.pending, Head(todo).txid))
    ELSE TransferPending(g, Tail(todo))

\* _release_sets, the head of the while loop: either next_set is cleared and
\* its values are yielded, the generator staying at the yield until it is
\* resumed, or the loop ends and gen_sets goes back to its for statement
ReleaseSets(g) ==
    IF Len(g.next_set) >= g.max_set_size \/ Len(g.pending) >= g.max_pending_size
    THEN [ kind |-> "yield", gen |-> [ g EXCEPT !.next_set = << >>, !.at = "yield" ],
           yielded |-> << g.next_set >> ]
    ELSE [ kind |-> "for", gen |-> [ g EXCEPT !.at = "for" ], yielded |-> << >> ]

\* _release_sets resumed after the yield, given the outcome t of the transfer
\* loop: back to the head of the while loop, or the KeyError leaves gen_sets
ReleaseSetsAfterTransfer(t) ==
    IF t.kind # "ok"
    THEN [ kind |-> t.kind, gen |-> [ t.gen EXCEPT !.at = "end" ], yielded |-> << >> ]
    ELSE ReleaseSets(t.gen)

\* the generator resumed at yield txs
ReleaseSetsResume(g) == ReleaseSetsAfterTransfer(TransferPending(g, g.pending))

\* gen_sets: the body of the loop for one tx of tx_iter, up to the first yield
\* of _release_sets or to the for statement
GenSetsTake(g, tx) ==
    ReleaseSets(IF IsTxReady(tx, g.next_set, g.pending)
                THEN [ g EXCEPT !.next_set = WithTx(@, tx) ]
                ELSE [ g EXCEPT !.pending = WithTx(@, tx) ])

\* ------------------------------- RawFilesIterator with a glob pattern
\* A file name of the data directory: its stem and its number, as in
\* blk00001.dat and rev00001.dat.  Names are ordered as strings are.
RAW_FILES_GLOB_PATTERN == "blk*.dat"

NoName == [ stem |-> "", num |-> 0 ]

StemRank(stem) == CASE stem = "" -> 0 [] stem = "blk" -> 1 [] stem = "rev" -> 2

NameLess(a, b) ==
    \/ StemRank(a.stem) < StemRank(b.stem)
    \/ a.stem = b.stem /\ a.num < b.num

\* glob.glob: whether the name matches the pattern
Matches(name, pattern) ==
    CASE pattern = "blk*.dat" -> name.stem = "blk"
      [] pattern = "rev*.dat" -> name.stem = "rev"
      [] pattern = "*.dat" -> TRUE

\* sorted(names)
RECURSIVE SortedNames(_)
SortedNames(names) ==
    IF names = {} THEN << >>
    ELSE LET least == CHOOSE n \in names : \A m \in names \ {n} : NameLess(n, m)
         IN  << least >> \o SortedNames(names \ {least})

\* for comparison: the files found if the pattern the iterator was built with
\* were the one used
FindFilesConfigured(it, dir) ==
    SelectSeq(SortedNames({ n \in dir : Matches(n, it.raw_files_glob_pattern) }),
              LAMBDA f : it.prev_file = NoName \/ NameLess(it.prev_file, f))

\* _find_files: the pattern is read from the class attribute
\* RAW_FILES_GLOB_PATTERN, whatever pattern the iterator was built with
FindFilesIn(it, dir) ==
    SelectSeq(SortedNames({ n \in dir : Matches(n, RAW_FILES_GLOB_PATTERN) }),
              LAMBDA f : it.prev_file = NoName \/ NameLess(it.prev_file, f))

\* _init
GlobFilesInitDone(it, files) == [ it EXCEPT !.files = files, !.pos = 0 ]

\* RawFilesIterator.__init__
GlobFilesNew(raw_files_glob_pattern, refresh) ==
    [ raw_files_glob_pattern |-> IF raw_files_glob_pattern = "None"
                                 THEN RAW_FILES_GLOB_PATTERN
                                 ELSE raw_files_glob_pattern,
      refresh |-> refresh, files |-> << >>, pos |-> 0, prev_file |-> NoName ]

GlobFilesInit(dir, raw_files_glob_pattern, refresh) ==
    GlobFilesInitDone(GlobFilesNew(raw_files_glob_pattern, refresh),
                      FindFilesIn(GlobFilesNew(raw_files_glob_pattern, refresh), dir))

\* _raw_next
GlobFilesRawNext(it) ==
    IF it.pos < Len(it.files)
    THEN [ kind |-> "file", name |-> it.files[it.pos + 1],
           it |-> [ it EXCEPT !.pos = @ + 1, !.prev_file = it.files[it.pos + 1] ] ]
    ELSE [ kind |-> "stop", it |-> it ]

\* RawFilesIterator.__next__
GlobFilesNext(it, dir) ==
    IF it.pos < Len(it.files) \/ ~it.refresh
    THEN GlobFilesRawNext(it)
    ELSE GlobFilesRawNext(GlobFilesInitDone(it, FindFilesIn(it, dir)))

\* the state the later components start in
LaterInit ==
    /\ blockchain = BlockChainInit
    /\ bc_out = << >>
    /\ gen = GenInit(NoneVal, NoneVal)
    /\ stream = << >>
    /\ sets_out = << >>
    /\ datadir = {}
    /\ globit = GlobFilesInit({}, "None", TRUE)

\* --------------------------------------------------------- specifications
Margins == 0..MaxMargin

InitWith(margins, filters, pads) ==
    /\ disk \in { << [ frames |-> << >>, pad |-> p ] >> : p \in pads }
    /\ cfg \in { [ margin |-> k, refresh |-> TRUE, has_filter |-> f.has, filter |-> f.filter ] :
                 k \in margins, f \in filters }
    /\ raw = RawInit(disk)
    /\ topo = TopoInit
    /\ lc = LCInit
    /\ pc = "idle"
    /\ result = Idle
    /\ raw_out = << >>
    /\ topo_out = << >>
    /\ released = << >>
    /\ emitted = << >>
    /\ txit = TxInit
    /\ tx_out = << >>
    /\ files_out = << >>
    /\ tail = TailInit
    /\ tracker = TrackerInit
    /\ tracked_out = << >>
    /\ txs_gen = TxsGenNone
    /\ fed = << >>
    /\ LaterInit

Unfiltered == { [ has |-> FALSE, filter |-> NoFilter ] }

\* any blocks in any storage order, every margin, no filter
Init == InitWith(Margins, Unfiltered, {0, PreallocLen})

Next ==
    \/ StoreBlock(NumBlocks)
    \/ LCCall
    \/ LCRelease
    \/ LCRead

Spec == Init /\ [][Next]_vars

\* blocks stored before the first __next__ call, then only iteration
StoreBlockBeforeRun ==
    /\ result = Idle
    /\ StoreBlock(NumBlocks)

InitStatic == InitWith(Margins, Unfiltered, {0, PreallocLen})

NextStatic ==
    \/ StoreBlockBeforeRun
    \/ LCCall
    \/ LCRelease
    \/ LCRead

SpecStatic == InitStatic /\ [][NextStatic]_vars

\* any blocks in any storage order, every margin, with or without a filter
ForestFilters ==
    Unfiltered \cup
    { [ has |-> TRUE, filter |-> [ NoFilter EXCEPT !.block_height = << 1, NoneVal >> ] ],
      [ has |-> TRUE, filter |-> [ NoFilter EXCEPT !.block_hash = << 2, 3 >> ] ] }

InitFiltered == InitWith(Margins, ForestFilters, {PreallocLen})

NextFiltered ==
    \/ StoreBlock(NumBlocks)
    \/ LCCall
    \/ LCRelease
    \/ LCRead

SpecFiltered == InitFiltered /\ [][NextFiltered]_vars

\* no __next__ call has raised so far
Iterating == { "idle", "tx", "resumed" }

\* the state after the call s of TxIterator.__next__
TxNextDone(s) ==
    /\ txit' = s.txit
    /\ lc' = s.lc
    /\ topo' = s.topo
    /\ raw' = s.raw
    /\ raw_out' = raw_out \o s.out.pulled
    /\ topo_out' = topo_out \o s.out.got
    /\ released' = released \o s.out.released
    /\ emitted' = emitted \o s.out.emitted
    /\ tx_out' = tx_out \o s.out.txs
    /\ result' = IF s.kind = "tx" THEN [ kind |-> "tx", txid |-> TxOf(s.tx).txid ]
                 ELSE [ kind |-> s.kind ]

\* the consumer calls TxIterator.__next__
TxNext ==
    /\ pc = "idle"
    /\ result.kind \in Iterating
    /\ TxNextDone(TxNextLoop(txit, lc, topo, raw, disk, cfg, NoOutput))
    /\ UNCHANGED << disk, cfg, pc, aux >>

\* the consumer replaces the TxIterator by pickle.loads(pickle.dumps(it))
Resume ==
    /\ pc = "idle"
    /\ result.kind \in Iterating
    /\ txit.gen < MaxResumes
    /\ LET g == txit.gen + 1
       IN  /\ txit' = PickleTx(txit, g)
           /\ lc' = PickleLC(lc, g)
           /\ topo' = PickleTopo(topo, g)
           /\ raw' = PickleRaw(raw)
    /\ result' = [ kind |-> "resumed" ]
    /\ UNCHANGED << disk, cfg, pc, hist, aux >>

\* blocks stored before the first __next__ call; then the transactions are
\* iterated, and the iterator is pickled and restored between calls
InitResume == InitWith(Margins, Unfiltered, {0, PreallocLen})

NextResume ==
    \/ StoreBlockBeforeRun
    \/ TxNext
    \/ Resume

SpecResume == InitResume /\ [][NextResume]_vars

\* the uninterrupted run: __next__ until it raises, from the given state
RECURSIVE Consume(_, _, _, _, _, _, _)
\* after the call s: one more call, or the end of the run
Consumed(d, c, s) ==
    IF s.kind = "tx" THEN Consume(s.txit, s.lc, s.topo, s.raw, d, c, s.out)
    ELSE [ kind |-> s.kind, out |-> s.out ]

Consume(x, l, t, r, d, c, acc) == Consumed(d, c, TxNextLoop(x, l, t, r, d, c, acc))

\* the uninterrupted run of a new TxIterator over the files
FullRun(d, c) == Consume(TxInit, LCInit, TopoInit, RawInit(d), d, c, NoOutput)

\* ------------------------------------------------- properties: definitions
TreeBlocks(l) == { l.blocks_by_hash[h] : h \in DOMAIN l.blocks_by_hash }

TreeLeaves(l) == { b \in TreeBlocks(l) : l.block_children[b.hash] = << >> }

\* is the block with hash a equal to b or an ancestor of b, by the parent
\* pointers of the fork tree
RECURSIVE AncestorOrEqualInTree(_, _, _)
AncestorOrEqualInTree(l, a, b) ==
    IF b.hash = a THEN TRUE
    ELSE IF b.prev = NoneVal \/ b.prev \notin DOMAIN l.blocks_by_hash THEN FALSE
    ELSE AncestorOrEqualInTree(l, a, l.blocks_by_hash[b.prev])

\* height of a stored block above genesis, -1 when it does not connect
RECURSIVE StoredHeight(_, _, _)
StoredHeight(d, h, fuel) ==
    IF h = GENESIS_PREV_BLOCK_HASH THEN -1
    ELSE IF fuel = 0 \/ h \notin StoredHashes(d) THEN NoneVal
    ELSE LET ph == StoredHeight(d, PrevOf(d, h), fuel - 1)
         IN  IF ph = NoneVal THEN NoneVal ELSE ph + 1

Connected(d) == { h \in StoredHashes(d) : StoredHeight(d, h, Len(AllFrames(d))) # NoneVal }

HighestConnected(d) ==
    { h \in Connected(d) :
        \A g \in Connected(d) :
            StoredHeight(d, g, Len(AllFrames(d))) <= StoredHeight(d, h, Len(AllFrames(d))) }

RECURSIVE StoredAncestorOrEqual(_, _, _, _)
StoredAncestorOrEqual(d, a, b, fuel) ==
    IF a = b THEN TRUE
    ELSE IF fuel = 0 \/ b \notin StoredHashes(d) THEN FALSE
    ELSE StoredAncestorOrEqual(d, a, PrevOf(d, b), fuel - 1)

\* ------------------------------------------------------------------ C1
\* C1: consecutive blocks returned by LongestChainBlockIterator are parent and
\* child with heights one apart (with or without a filter); without a filter
\* the first block returned has height 0 and the all-zero prev hash.
C1_ConsecutiveEmissions ==
    /\ \A i \in 1..(Len(emitted) - 1) :
          /\ emitted[i + 1].prev = emitted[i].hash
          /\ emitted[i + 1].height = emitted[i].height + 1
    /\ (~cfg.has_filter /\ emitted # << >>) =>
          /\ emitted[1].height = 0
          /\ emitted[1].prev = GENESIS_PREV_BLOCK_HASH

C1_Witness ==
    /\ cfg.has_filter
    /\ Len(emitted) >= 2
    /\ Len(released) > Len(emitted)
    /\ Len(topo_out) > Len(released)

\* ------------------------------------------------------------------ C2
\* C2: every block returned by TopologicalBlockIterator has the all-zero prev
\* hash or the hash of a block the iterator returned earlier.
C2_ParentBeforeChild ==
    \A i \in 1..Len(topo_out) :
        \/ topo_out[i].prev = GENESIS_PREV_BLOCK_HASH
        \/ \E j \in 1..(i - 1) : topo_out[j].hash = topo_out[i].prev

\* a child stored before its parent came out after it
C2_Witness ==
    \E i \in 1..Len(topo_out) : \E j \in 1..(i - 1) :
        /\ topo_out[j].hash = topo_out[i].prev
        /\ topo_out[i].hash < topo_out[j].hash

\* ------------------------------------------------------------------ C3
\* C3: a block returned by TopologicalBlockIterator carries the height of the
\* earlier returned block it names as prev, plus one; genesis carries 0.
C3_TopoHeights ==
    \A i \in 1..Len(topo_out) :
        /\ topo_out[i].prev = GENESIS_PREV_BLOCK_HASH => topo_out[i].height = 0
        /\ \A j \in 1..(i - 1) :
              topo_out[j].hash = topo_out[i].prev =>
                  topo_out[i].height = topo_out[j].height + 1

\* a chain of three, the last two disorphanated out of storage order
C3_Witness ==
    \E i \in 1..Len(topo_out) : \E j \in 1..(i - 1) :
        /\ topo_out[j].hash = topo_out[i].prev
        /\ topo_out[i].hash < topo_out[j].hash
        /\ topo_out[i].height = 2

\* ------------------------------------------------------------------ C4
\* C4 as claimed: with the data stored before the run, every block returned
\* is the unique highest stored block connected to genesis or one of its
\* ancestors.
C4_OnLongestStoredChain ==
    (/\ result # Idle
     /\ Cardinality({ h \in StoredHashes(disk) : PrevOf(disk, h) = GENESIS_PREV_BLOCK_HASH }) = 1
     /\ Cardinality(HighestConnected(disk)) = 1) =>
        \A i \in 1..Len(emitted) : \A t \in HighestConnected(disk) :
            StoredAncestorOrEqual(disk, emitted[i].hash, t, Len(AllFrames(disk)))

\* C4 amended: a block is returned only when it is equal to or an ancestor of
\* every highest block of the fork tree held at that moment (the branch that
\* leads by the margin); a fork pruned earlier is never reconsidered.
C4_OnLeadingBranchOfTree ==
    [][ emitted' # emitted =>
          \A b \in TreeBlocks(lc) :
              (\A o \in TreeBlocks(lc) : o.height <= b.height) =>
                  AncestorOrEqualInTree(lc, Last(emitted').hash, b) ]_vars

\* a block was returned while a sibling of it had been ingested
C4_Witness ==
    /\ emitted # << >>
    /\ \E i \in 1..Len(topo_out) :
          /\ topo_out[i].prev = Last(emitted).prev
          /\ topo_out[i].hash # Last(emitted).hash
          /\ \E j \in (i + 1)..Len(topo_out) : topo_out[j].hash = Last(emitted).hash

\* ------------------------------------------------------------------ C5
\* C5: a block is returned only from a state in which one leaf of the fork
\* tree is at least margin higher than every other leaf and, when it is the
\* only leaf, at least margin higher than the root.
C5_GapBeforeEmission ==
    [][ emitted' # emitted =>
          \E top \in TreeLeaves(lc) :
              /\ \A o \in TreeLeaves(lc) \ {top} : top.height - o.height >= cfg.margin
              /\ TreeLeaves(lc) = {top} => top.height - lc.root_block.height >= cfg.margin ]_vars

\* a block was returned while two branches were competing in the tree
C5_Witness ==
    /\ emitted # << >>
    /\ cfg.margin >= 2
    /\ \E i \in 1..Len(topo_out) :
          /\ topo_out[i].prev = Last(emitted).hash
          /\ \E j \in 1..Len(topo_out) :
                /\ j # i
                /\ topo_out[j].prev = Last(emitted).hash

\* ------------------------------------------------------- chain scenarios
\* scenario S1: a linear chain, the default margin, no filter
InitS1 == InitWith({HEIGHT_SAFETY_MARGIN}, Unfiltered, {0, PreallocLen})

NextS1 ==
    \/ StoreChainBlock(ChainLen)
    \/ LCCall
    \/ LCRelease
    \/ LCRead

SpecS1 == InitS1 /\ [][NextS1]_vars

\* a linear chain under a filter on one field
OptBounds == {NoneVal} \cup 0..MaxBound

HeightFilters ==
    { [ has |-> TRUE, filter |-> [ NoFilter EXCEPT !.block_height = << a, b >> ] ] :
        a \in OptBounds, b \in OptBounds }

TimeFilters ==
    { [ has |-> TRUE, filter |-> [ NoFilter EXCEPT !.block_time = << a, b >> ] ] :
        a \in {NoneVal} \cup { TimeOf(h) : h \in 1..MaxBound },
        b \in {NoneVal} \cup { TimeOf(h) : h \in 1..MaxBound } }

HashFilters ==
    { [ has |-> TRUE, filter |-> [ NoFilter EXCEPT !.block_hash = << a, b >> ] ] :
        a \in {NoneVal} \cup 1..MaxBound, b \in {NoneVal} \cup 1..MaxBound }

InitChainFilter ==
    InitWith({1, 2}, HeightFilters \cup TimeFilters \cup HashFilters, {PreallocLen})

NextChainFilter ==
    \/ StoreChainBlock(FilterChainLen)
    \/ LCCall
    \/ LCRelease
    \/ LCRead

SpecChainFilter == InitChainFilter /\ [][NextChainFilter]_vars

\* ------------------------------------------------------------------ C7
InBounds(v, boundaries) ==
    /\ boundaries[1] = NoneVal \/ boundaries[1] <= v
    /\ boundaries[2] = NoneVal \/ v < boundaries[2]

\* C7 as claimed: under a filter on height or on timestamp over a chain, the
\* blocks returned are exactly the released chain blocks whose value v has
\* start <= v < stop, in chain order; no returned block has v >= stop.
C7_OrderedFilterExact ==
    /\ IsSet(cfg.filter.block_height) =>
          emitted = SelectSeq(released,
                              LAMBDA b : InBounds(b.height, cfg.filter.block_height))
    /\ IsSet(cfg.filter.block_time) =>
          emitted = SelectSeq(released,
                              LAMBDA b : InBounds(TimeOf(b.hash), cfg.filter.block_time))

\* ------------------------------------------------------------------ C8
\* C8 as claimed: under a filter on block hash nothing is returned before the
\* block whose hash is start_block_hash, and the block whose hash is
\* stop_block_hash is never returned.
C8_HashFilterStopExclusive ==
    IsSet(cfg.filter.block_hash) =>
        /\ \A i \in 1..Len(emitted) : emitted[i].hash # cfg.filter.block_hash[2]
        /\ (cfg.filter.block_hash[1] # NoneVal /\ emitted # << >>) =>
              emitted[1].hash = cfg.filter.block_hash[1]

\* ------------------------------------------------------------------ C9
\* C9 as claimed: with margin 0 over storage holding exactly genesis and its
\* child A, the calls return genesis, then A, then StopIteration, and nothing
\* else is raised.
C9_S1MarginZero ==
    (/\ cfg.margin = 0
     /\ AllFrames(disk) = << [ hash |-> 1, prev |-> 0 ], [ hash |-> 2, prev |-> 1 ] >>
     /\ pc = "idle"
     /\ result # Idle) =>
        /\ result.kind \in {"block", "StopIteration"}
        /\ Len(emitted) <= 2
        /\ \A i \in 1..Len(emitted) : emitted[i].hash = i
        /\ result.kind = "StopIteration" => Len(emitted) = 2

\* ------------------------------------------------------------------ C10
\* C10 as claimed: with margin 6 over a linear chain no block is returned
\* before a block of height 6 is ingested, and with heights 0..6 ingested the
\* blocks returned are exactly genesis and A.
C10_NothingBeforeHeightSix ==
    /\ emitted # << >> =>
          \E i \in 1..Len(topo_out) : topo_out[i].height >= HEIGHT_SAFETY_MARGIN
    /\ (pc = "idle" /\ result.kind = "StopIteration"
        /\ Len(topo_out) = HEIGHT_SAFETY_MARGIN + 1) =>
          (Len(emitted) = 2 /\ emitted[1].hash = 1 /\ emitted[2].hash = 2)

\* C10 amended: with margin 6 over a linear chain the block of height h is
\* returned only once a block of height h + 5 is ingested (genesis once four
\* descendants of A are ingested, A once the fifth is), and when the stream
\* ends with heights 0..n-1 ingested exactly the blocks of heights 0..n-6 were
\* returned: genesis and A for heights 0..6.
C10_ReleasedAtMarginMinusOne ==
    /\ \A i \in 1..Len(emitted) :
          /\ emitted[i].hash = i
          /\ emitted[i].height = i - 1
          /\ Len(topo_out) >= i + HEIGHT_SAFETY_MARGIN - 1
    /\ (pc = "idle" /\ result.kind = "StopIteration") =>
          Len(emitted) = IF Len(topo_out) >= HEIGHT_SAFETY_MARGIN
                         THEN Len(topo_out) - HEIGHT_SAFETY_MARGIN + 1 ELSE 0

\* heights 0..6 ingested, the stream ended, genesis and A returned
C10_Witness ==
    /\ pc = "idle"
    /\ result.kind = "StopIteration"
    /\ Len(topo_out) = HEIGHT_SAFETY_MARGIN + 1
    /\ Len(emitted) = 2

\* ------------------------------------------------------- C6: resumability
IsPrefix(s, t) == Len(s) <= Len(t) /\ SubSeq(t, 1, Len(s)) = s

\* what the consumer compares of a block: its hash and its height
BlockValues(s) == [ i \in 1..Len(s) |-> << s[i].hash, s[i].height >> ]

\* what the consumer compares of a transaction: its txid
TxIds(s) == [ i \in 1..Len(s) |-> TxOf(s[i]).txid ]

\* C6: however often the iterator is pickled and restored between calls, the
\* stored blocks, the topologically ordered blocks, the longest-chain blocks
\* and the transactions handed out so far are the first ones of the
\* uninterrupted run over the same files, element by element, and when
\* __next__ raises, the run has handed out all of them and ends the same way.
C6_ResumedRunEqualsUninterrupted ==
    result # Idle =>
      LET full == FullRun(disk, cfg)
          mine == << raw_out, BlockValues(topo_out), BlockValues(emitted), TxIds(tx_out) >>
          ref == << full.out.pulled, BlockValues(full.out.got),
                    BlockValues(full.out.emitted), TxIds(full.out.txs) >>
      IN  /\ \A i \in 1..4 : IsPrefix(mine[i], ref[i])
          /\ result.kind \notin Iterating => mine = ref /\ result.kind = full.kind

\* C6 witness: after two blocks of the longest chain, the second transaction
\* of a block is returned by a restored iterator that was pickled inside
\* that block
C6_Witness ==
    /\ result.kind = "tx"
    /\ txit.gen >= 1
    /\ txit.block_txs.kind = "block"
    /\ txit.block_txs.blob.type = "bytearray"
    /\ txit.block_txs.tx_idx = 2
    /\ result.txid = TxsOf(txit.block_txs.block.hash)[2].txid
    /\ Len(emitted) >= 2
    /\ Len(tx_out) >= 3

\* ------------------------------------------------------- C11: scenario S2
\* scenario S2: genesis (1) -> A (2), the two children of A (3 and 4) stored
\* in either order, then a chain (5, 6, ...) under one of them
S2Descendants == 6

\* the parents block b of the scenario may have
S2Parents(b) ==
    IF b <= 2 THEN {b - 1}
    ELSE IF b <= 4 THEN {2}
    ELSE IF b = 5 THEN {3, 4}
    ELSE {b - 1}

StoreS2Block ==
    /\ Len(AllFrames(disk)) < 4 + S2Descendants
    /\ \E p \in S2Parents(Len(AllFrames(disk)) + 1) :
          disk' = WriteFrame(disk, [ hash |-> Len(AllFrames(disk)) + 1, prev |-> p ])
    /\ UNCHANGED << cfg, raw, topo, lc, pc, result, txit, hist, aux >>

InitS2 == InitWith({HEIGHT_SAFETY_MARGIN}, Unfiltered, {0, PreallocLen})

NextS2 ==
    \/ StoreS2Block
    \/ LCCall
    \/ LCRelease
    \/ LCRead

SpecS2 == InitS2 /\ [][NextS2]_vars

\* B is the child of A the chain was appended under, B' is its sibling
S2B(d) == PrevOf(d, 5)

S2BPrime(d) == 7 - S2B(d)

\* C11: in scenario S2 with margin 6 the blocks returned are genesis, A, B and
\* then descendants of B, in that order; B' is never returned; once B has been
\* returned B' is in none of the fork tree's maps; and when the stream ends
\* with the 6 descendants ingested, genesis, A and B have been returned.
C11_ForkS2 ==
    /\ \A i \in 1..Len(emitted) :
          /\ emitted[i].hash = IF i <= 2 THEN i
                               ELSE IF i = 3 THEN S2B(disk)
                               ELSE i + 1
          /\ emitted[i].height = i - 1
    /\ Len(emitted) >= 3 =>
          /\ S2BPrime(disk) \notin DOMAIN lc.blocks_by_hash
          /\ S2BPrime(disk) \notin DOMAIN lc.block_children
          /\ \A h \in DOMAIN lc.block_children :
                \A i \in 1..Len(lc.block_children[h]) :
                   lc.block_children[h][i].hash # S2BPrime(disk)
    /\ (pc = "idle" /\ result.kind = "StopIteration"
        /\ Len(topo_out) >= 4 + HEIGHT_SAFETY_MARGIN) =>
          Len(emitted) >= 3

\* the stream ended with B' stored before B and the 6 descendants under B:
\* genesis, A and B were returned and B' was ingested
C11_Witness ==
    /\ pc = "idle"
    /\ result.kind = "StopIteration"
    /\ Len(emitted) >= 3
    /\ emitted[3].hash = 4
    /\ \E i \in 1..Len(topo_out) : topo_out[i].hash = 3 /\ topo_out[i].height = 2

\* ------------------------------------------- the stored-block stream alone
MaxFiles == 3

RawBlocks == 3

\* bitcoind opens the next block file, preallocated or not
NewFile ==
    /\ Len(disk) < MaxFiles
    /\ \E p \in {0, PreallocLen} :
          disk' = Append(disk, [ frames |-> << >>, pad |-> p ])
    /\ UNCHANGED << cfg, raw, topo, lc, pc, result, txit, hist, aux >>

\* bitcoind stores one more block in the last file
StoreRawBlock ==
    /\ disk # << >>
    /\ StoreBlock(RawBlocks)

\* the state after RawFileBlockIterator.__next__ answered s
RawCallDone(s) ==
    /\ raw' = s.raw
    /\ raw_out' = IF s.kind = "block"
                  THEN Append(raw_out, [ hash |-> s.block.hash, filepos |-> s.filepos ])
                  ELSE raw_out
    /\ result' = IF s.kind = "block" THEN [ kind |-> "block", hash |-> s.block.hash ]
                 ELSE [ kind |-> "StopIteration" ]

\* the consumer calls RawFileBlockIterator.__next__
RawCall ==
    /\ RawCallDone(RawNext(raw, disk, cfg.refresh))
    /\ UNCHANGED << disk, cfg, topo, lc, pc, topo_out, released, emitted,
                    txit, tx_out, aux >>

\* no file or one file at construction, refresh enabled or not
InitRaw ==
    /\ disk \in { << >> } \cup { << [ frames |-> << >>, pad |-> p ] >> : p \in {0, PreallocLen} }
    /\ cfg \in { [ margin |-> 0, refresh |-> r, has_filter |-> FALSE, filter |-> NoFilter ] :
                 r \in BOOLEAN }
    /\ raw = RawInit(disk)
    /\ topo = TopoInit
    /\ lc = LCInit
    /\ pc = "idle"
    /\ result = Idle
    /\ raw_out = << >>
    /\ topo_out = << >>
    /\ released = << >>
    /\ emitted = << >>
    /\ txit = TxInit
    /\ tx_out = << >>
    /\ files_out = << >>
    /\ tail = TailInit
    /\ tracker = TrackerInit
    /\ tracked_out = << >>
    /\ txs_gen = TxsGenNone
    /\ fed = << >>
    /\ LaterInit

NextRaw ==
    \/ NewFile
    \/ StoreRawBlock
    \/ RawCall

SpecRaw == InitRaw /\ [][NextRaw]_vars

\* the file holding the block of hash h, and the offset of its frame there
FileOf(d, h) == CHOOSE f \in 1..Len(d) : \E k \in 1..Len(d[f].frames) : d[f].frames[k].hash = h

OffsetOf(d, h) ==
    LET frames == d[FileOf(d, h)].frames
        k == CHOOSE j \in 1..Len(frames) : frames[j].hash = h
    IN  DataLen(SubSeq(frames, 1, k - 1))

\* ------------------------------------------------------------------ C12
\* C12: every StoredBlock returned by RawFileBlockIterator carries the name of
\* the file holding its frame and the offset of the frame's first byte; the
\* first block returned from a file has offset 0, the next block returned from
\* the same file has the previous offset + 8 + the previous payload size, and
\* blocks come out in storage order whatever their parents are.
C12_StorageOrderAndFilePos ==
    \A i \in 1..Len(raw_out) :
        /\ raw_out[i].hash \in StoredHashes(disk)
        /\ raw_out[i].filepos.filename = FileOf(disk, raw_out[i].hash)
        /\ raw_out[i].filepos.offset = OffsetOf(disk, raw_out[i].hash)
        /\ IF i = 1 \/ raw_out[i - 1].filepos.filename # raw_out[i].filepos.filename
           THEN raw_out[i].filepos.offset = 0
           ELSE raw_out[i].filepos.offset =
                   raw_out[i - 1].filepos.offset + FrameHeaderLen
                       + BlockRawSize(raw_out[i - 1].hash)
        /\ i > 1 => /\ raw_out[i - 1].hash < raw_out[i].hash
                    /\ raw_out[i - 1].filepos.filename <= raw_out[i].filepos.filename

\* A, C, B stored in one file in that order (B's parent is A, C's parent is
\* B) and returned as A, C, B
C12_Witness ==
    /\ Len(raw_out) = 3
    /\ \A i \in 1..3 : raw_out[i].hash = i /\ raw_out[i].filepos.filename = 1
    /\ PrevOf(disk, 2) = 3
    /\ PrevOf(disk, 3) = 1
    /\ raw_out[3].filepos.offset = FrameSize([ hash |-> 1 ]) + FrameSize([ hash |-> 2 ])

\* ------------------------------------------------------------------ C13
\* every file and block is stored before the first __next__ call; the files
\* are found at construction or by the rescan that refresh enables
NewFileBeforeRun ==
    /\ result = Idle
    /\ NewFile

StoreRawBlockBeforeRun ==
    /\ result = Idle
    /\ StoreRawBlock

InitRawStatic ==
    /\ InitRaw
    /\ cfg.refresh

NextRawStatic ==
    \/ NewFileBeforeRun
    \/ StoreRawBlockBeforeRun
    \/ RawCall

SpecRawStatic == InitRawStatic /\ [][NextRawStatic]_vars

\* one more __next__ call would signal the end and change nothing
RawEndedForGood ==
    /\ result.kind = "StopIteration"
    /\ RawNext(raw, disk, cfg.refresh) = [ kind |-> "stop", raw |-> raw ]

\* C13 as claimed: once the stream has ended for good, every framed block of
\* every file has been returned exactly once, files in name order, also when
\* an earlier file is empty, holds one block or ends with zero padding.
C13_EveryBlockOfEveryFile ==
    RawEndedForGood =>
        /\ Len(raw_out) = Len(AllFrames(disk))
        /\ \A i \in 1..Len(raw_out) : raw_out[i].hash = AllFrames(disk)[i].hash

\* ------------------------------------------------------------------ C14
\* the last call signalled the end after the last block of the last file,
\* every stored block having been returned
EndAfterLastBlock ==
    /\ cfg.refresh
    /\ result.kind = "StopIteration"
    /\ raw_out # << >>
    /\ Len(raw_out) = Len(AllFrames(disk))
    /\ raw.cur_filename = Len(disk)
    /\ Last(raw_out).filepos.filename = Len(disk)
    /\ raw.cur_offset = DataLen(Last(disk).frames)

\* the answer s of __next__ is the last block stored, at the offset where
\* the iterator stands
ReturnsAppended(s) ==
    /\ s.kind = "block"
    /\ s.block.hash = Last(Last(disk).frames).hash
    /\ s.filepos = [ filename |-> Len(disk), offset |-> raw.cur_offset ]

\* C14 as claimed: with refresh enabled, once the end was signalled after the
\* last block of the last file, a block appended to that file is what the
\* next __next__ call returns, with the offset where the end was detected,
\* whether or not zero bytes followed the last block.
C14_AppendedBlockIsNext ==
    [][ (EndAfterLastBlock /\ disk' # disk /\ Len(disk') = Len(disk))
            => (ReturnsAppended(RawNext(raw, disk, cfg.refresh)))' ]_vars

\* --------------------------------------------------- RawFilesIterator alone
MaxNames == 4

TailBlocks == 2

\* a file appears in the data directory under a name not used so far
FileAppears ==
    /\ \E i \in 1..Len(disk) :
          /\ disk[i] = NoFile
          /\ disk' = [ disk EXCEPT ![i] = [ frames |-> << >>, pad |-> 0 ] ]
    /\ UNCHANGED << cfg, raw, topo, lc, pc, result, txit, hist, aux >>

\* the state after RawFilesIterator.__next__ answered s
FilesCallDone(s) ==
    /\ raw' = [ raw EXCEPT !.rf = s.rf ]
    /\ files_out' = IF s.kind = "file" THEN Append(files_out, s.name) ELSE files_out
    /\ result' = IF s.kind = "file" THEN [ kind |-> "file", name |-> s.name ]
                 ELSE [ kind |-> "StopIteration" ]

\* the consumer calls RawFilesIterator.__next__
FilesCall ==
    /\ FilesCallDone(RawFilesNext(raw.rf, disk, cfg.refresh))
    /\ UNCHANGED << disk, cfg, topo, lc, pc, txit, hist, tail, tracker, tracked_out, txs_gen, fed, later >>

\* any of the names taken at construction, refresh enabled or not
InitFiles ==
    /\ disk \in [ 1..MaxNames -> { NoFile, [ frames |-> << >>, pad |-> 0 ] } ]
    /\ cfg \in { [ margin |-> 0, refresh |-> r, has_filter |-> FALSE, filter |-> NoFilter ] :
                 r \in BOOLEAN }
    /\ raw = RawInit(disk)
    /\ topo = TopoInit
    /\ lc = LCInit
    /\ pc = "idle"
    /\ result = Idle
    /\ raw_out = << >>
    /\ topo_out = << >>
    /\ released = << >>
    /\ emitted = << >>
    /\ txit = TxInit
    /\ tx_out = << >>
    /\ files_out = << >>
    /\ tail = TailInit
    /\ tracker = TrackerInit
    /\ tracked_out = << >>
    /\ txs_gen = TxsGenNone
    /\ fed = << >>
    /\ LaterInit

NextFiles ==
    \/ FileAppears
    \/ FilesCall

SpecFiles == InitFiles /\ [][NextFiles]_vars

\* the names present that are greater than the last name returned
NewerFiles ==
    { i \in 1..Len(disk) :
        /\ disk[i] # NoFile
        /\ files_out # << >> => i > Last(files_out) }

\* the answer s of RawFilesIterator.__next__ after the end was signalled
AfterEndAnswer(s) ==
    IF cfg.refresh /\ NewerFiles # {}
    THEN /\ s.kind = "file"
         /\ s.name \in NewerFiles
         /\ \A i \in NewerFiles : s.name <= i
    ELSE s.kind = "stop"

\* ------------------------------------------------------------------ C15
\* C15: the names returned by RawFilesIterator are strictly increasing, so
\* each is returned at most once; once the end has been signalled, the next
\* __next__ call returns the least name present that is greater than the last
\* one returned when refresh is enabled, and signals the end again, whatever
\* files have appeared, when refresh is disabled.
C15_RefreshYieldsNewerFiles ==
    /\ \A i \in 1..Len(files_out) :
          /\ disk[files_out[i]] # NoFile
          /\ i > 1 => files_out[i - 1] < files_out[i]
    /\ result.kind = "StopIteration" =>
          AfterEndAnswer(RawFilesNext(raw.rf, disk, cfg.refresh))

\* with refresh enabled the end was signalled and a file with a greater name
\* has appeared since, while a file that appeared under a smaller name was
\* never returned
C15_Witness ==
    /\ cfg.refresh
    /\ result.kind = "StopIteration"
    /\ files_out # << >>
    /\ NewerFiles # {}
    /\ \E i \in 1..Len(disk) :
          /\ disk[i] # NoFile
          /\ i < Last(files_out)
          /\ \A j \in 1..Len(files_out) : files_out[j] # i

\* ----------------------------------------- tailable over the stored blocks
\* the consumer calls tailable.__next__
TailCall ==
    /\ tail.pc = "idle"
    /\ tail.calls < MaxCalls
    /\ tail' = TailStart(tail)
    /\ result' = [ kind |-> "running" ]
    /\ UNCHANGED << disk, cfg, raw, topo, lc, pc, txit, hist,
                    files_out, tracker, tracked_out, txs_gen, fed, later >>

\* the state after the loop condition answered s
TailCheckDone(s) ==
    /\ tail' = s.tail
    /\ result' = IF s.kind = "stop" THEN [ kind |-> "StopIteration" ] ELSE result

TailCheck ==
    /\ tail.pc = "check"
    /\ TailCheckDone(TailChecked(tail))
    /\ UNCHANGED << disk, cfg, raw, topo, lc, pc, txit, hist,
                    files_out, tracker, tracked_out, txs_gen, fed, later >>

\* the state after the loop body answered s, the underlying iterator u
TailPollDone(s, u) ==
    /\ tail' = s.tail
    /\ raw' = u.raw
    /\ raw_out' = IF u.kind = "block"
                  THEN Append(raw_out, [ hash |-> u.block.hash, filepos |-> u.filepos ])
                  ELSE raw_out
    /\ result' = IF s.kind = "block" THEN [ kind |-> "block", hash |-> s.block.hash ]
                 ELSE IF s.kind = "stop" THEN [ kind |-> "StopIteration" ]
                 ELSE result

\* the loop body, given the answer u of next(self.iter)
TailPollWith(u) == TailPollDone(TailPolled(tail, u), u)

TailPoll ==
    /\ tail.pc = "poll"
    /\ TailPollWith(RawNext(raw, disk, cfg.refresh))
    /\ UNCHANGED << disk, cfg, topo, lc, pc, topo_out, released, emitted,
                    txit, tx_out, files_out, tracker, tracked_out, txs_gen, fed, later >>

\* the wait returns: the event was set or the timeout passed
TailWake ==
    /\ tail.pc = "sleep"
    /\ ~Waiting(tail)
    /\ tail' = [ tail EXCEPT !.pc = "check" ]
    /\ UNCHANGED << disk, cfg, raw, topo, lc, pc, result, txit, hist,
                    files_out, tracker, tracked_out, txs_gen, fed, later >>

\* another thread calls stop()
TailStop ==
    /\ ~tail.stop
    /\ tail' = TailStopped(tail)
    /\ UNCHANGED << disk, cfg, raw, topo, lc, pc, result, txit, hist,
                    files_out, tracker, tracked_out, txs_gen, fed, later >>

\* the clock advances; a wait does not last beyond its end
Tick ==
    /\ tail.now < MaxTime
    /\ tail.pc = "sleep" => Waiting(tail)
    /\ tail' = TailTicked(tail)
    /\ UNCHANGED << disk, cfg, raw, topo, lc, pc, result, txit, hist,
                    files_out, tracker, tracked_out, txs_gen, fed, later >>

\* bitcoind stores the next block in the preallocated file
StoreTailBlock == StoreChainBlock(TailBlocks)

Timeouts == {0, 2, 3, Inf}

PollingIntervals == {1, 2}

InitTail ==
    /\ disk = << [ frames |-> << >>, pad |-> PreallocLen ] >>
    /\ cfg = [ margin |-> 0, refresh |-> TRUE, has_filter |-> FALSE, filter |-> NoFilter ]
    /\ raw = RawInit(disk)
    /\ topo = TopoInit
    /\ lc = LCInit
    /\ pc = "idle"
    /\ result = Idle
    /\ raw_out = << >>
    /\ topo_out = << >>
    /\ released = << >>
    /\ emitted = << >>
    /\ txit = TxInit
    /\ tx_out = << >>
    /\ files_out = << >>
    /\ tail \in { TailInitWith(to, pi) : to \in Timeouts, pi \in PollingIntervals }
    /\ tracker = TrackerInit
    /\ tracked_out = << >>
    /\ txs_gen = TxsGenNone
    /\ fed = << >>
    /\ LaterInit

NextTail ==
    \/ StoreTailBlock
    \/ TailCall
    \/ TailCheck
    \/ TailPoll
    \/ TailWake
    \/ TailStop
    \/ Tick

SpecTail == InitTail /\ [][NextTail]_vars

\* ------------------------------------------------------------------ C16
\* C16: once stop() has been called, a __next__ call that was sleeping spends
\* no more time asleep, polls the underlying iterator no more and ends with
\* StopIteration; a call started afterwards ends with StopIteration without
\* polling; and every element the underlying iterator returned was returned
\* by the tailable, stop() or not.
C16_StopEndsTheWait ==
    /\ tail.overslept = 0
    /\ (tail.stop /\ tail.asleep_at_stop /\ tail.calls = tail.calls_at_stop) =>
          /\ tail.call_polls = tail.polls_at_stop
          /\ tail.pc \in {"sleep", "check", "idle"}
          /\ tail.pc = "idle" => result.kind = "StopIteration"
    /\ tail.stop_at_call =>
          /\ tail.call_polls = 0
          /\ tail.pc \in {"check", "idle"}
          /\ tail.pc = "idle" => result.kind = "StopIteration"
    /\ Len(tail.out) = Len(raw_out)
    /\ \A i \in 1..Len(raw_out) : tail.out[i] = raw_out[i].hash

\* stop() came while a call was asleep, after an element had been returned;
\* that call ended, and a call started after stop() ended as well
C16_Witness ==
    /\ tail.stop
    /\ tail.asleep_at_stop
    /\ tail.polls_at_stop >= 1
    /\ raw_out # << >>
    /\ tail.calls = tail.calls_at_stop + 1
    /\ tail.stop_at_call
    /\ tail.pc = "idle"
    /\ result.kind = "StopIteration"

\* ------------------------------------------------------------------ C17
\* C17: a wait lasts at most polling_interval and never beyond the timeout
\* counted from the start of the call; a call no stop() has touched ends with
\* StopIteration only when the time since its own start has reached the
\* timeout, after at least one poll, and with timeout 0 after exactly one.
C17_TimeoutPerCall ==
    /\ tail.pc = "sleep" =>
          /\ tail.wake - tail.slept_from <= tail.polling_interval
          /\ tail.wake > tail.slept_from
          /\ tail.slept_from - tail.called_at < tail.timeout
          /\ tail.timeout # Inf => tail.wake <= tail.called_at + tail.timeout
    /\ (tail.pc = "idle" /\ result.kind = "StopIteration" /\ ~tail.stop) =>
          /\ tail.timeout # Inf
          /\ tail.now - tail.called_at >= tail.timeout
          /\ tail.call_polls >= 1
          /\ tail.timeout = 0 => tail.call_polls = 1

\* the second call, never stopped, met the end on each of several polls and
\* ended once its own timeout had passed
C17_Witness ==
    /\ ~tail.stop
    /\ tail.calls >= 2
    /\ tail.called_at >= 2
    /\ tail.timeout \notin {0, Inf}
    /\ tail.call_polls >= 2
    /\ tail.pc = "idle"
    /\ result.kind = "StopIteration"
    /\ raw_out = << >>

\* ------------------------------------------- TrackedSpendingTxIterator
TrackChainLen == 3

MaxFed == 1             \* transactions the consumer hands to the tracker itself

\* the txid of a transaction that is not in the chain
FedTxid == 10 * (TrackChainLen + 1) + 1

\* the outputs a stored transaction may name: the two outputs of the first
\* transaction of the chain, the first output of the second transaction and
\* the output of the transaction that is not in the chain
TrackSpendable ==
    { << TxsOf(1)[1].txid, 0 >>, << TxsOf(1)[1].txid, 1 >>,
      << TxsOf(2)[1].txid, 0 >>, << FedTxid, 0 >> }

TrackInputChoices ==
    { CoinbaseInput } \cup { TxInput(k[1], k[2]) : k \in TrackSpendable }

\* parse_tx: the inputs a transaction may be stored with; only the first
\* one may be the coinbase input
TrackInputLists ==
    { ins \in UNION { [ 1..k -> TrackInputChoices ] : k \in 1..MaxInputs } :
        \A k \in 2..Len(ins) : ~ins[k].is_coinbase }

\* parse_tx: the inputs and the outputs that the bytes of a transaction may
\* hold
TxContents ==
    { [ inputs |-> ins, num_outputs |-> n ] : ins \in TrackInputLists, n \in 1..MaxOutputs }

\* the transaction tx that TxIterator.__next__ returned, a Tx or the TxInBlock
\* around it, with the inputs and outputs c that parse_tx read from its bytes
ParsedTx(tx, c) ==
    IF "tx" \in DOMAIN tx
    THEN TxInBlock([ txid |-> tx.tx.txid, rawsize |-> tx.tx.rawsize,
                     inputs |-> c.inputs, num_outputs |-> c.num_outputs ],
                   tx.block, tx.index)
    ELSE [ txid |-> tx.txid, rawsize |-> tx.rawsize,
           inputs |-> c.inputs, num_outputs |-> c.num_outputs ]

\* the state after TxIterator.__next__ answered s and, for a transaction,
\* process_tx answered p
TrackedNextDone(s, p) ==
    /\ txit' = s.txit
    /\ lc' = s.lc
    /\ topo' = s.topo
    /\ raw' = s.raw
    /\ raw_out' = raw_out \o s.out.pulled
    /\ topo_out' = topo_out \o s.out.got
    /\ released' = released \o s.out.released
    /\ emitted' = emitted \o s.out.emitted
    /\ tx_out' = tx_out \o s.out.txs
    /\ tracker' = IF s.kind = "tx" THEN p.tracker ELSE tracker
    /\ tracked_out' = IF s.kind = "tx" /\ p.kind = "ok"
                      THEN Append(tracked_out, p.tx) ELSE tracked_out
    /\ result' = IF s.kind # "tx" THEN [ kind |-> s.kind ]
                 ELSE IF p.kind = "ok" THEN [ kind |-> "tx", txid |-> TxOf(s.tx).txid ]
                 ELSE [ kind |-> "UnknownOutput", txid |-> p.txid, vout |-> p.vout ]

\* __next__ once TxIterator.__next__ answered s: _track hands the transaction
\* it got, as it got it, to process_tx.  The bytes of a transaction are read
\* once, here; c is what they hold.
TrackedAfterTx(s) ==
    IF s.kind # "tx" THEN TrackedNextDone(s, s)
    ELSE \E c \in TxContents :
            TrackedNextDone(s, process_tx(tracker, ParsedTx(s.tx, c)))

\* the consumer calls TrackedSpendingTxIterator.__next__, whatever the call
\* before answered: an error raised by __next__ leaves the iterator as it is
TrackedNext ==
    /\ pc = "idle"
    /\ TrackedAfterTx(TxNextLoop(txit, lc, topo, raw, disk, cfg, NoOutput))
    /\ UNCHANGED << disk, cfg, pc, files_out, tail, txs_gen, fed, later >>

\* the block after the last block of the chain, which is in no file
FedBlock ==
    [ hash |-> TrackChainLen + 1, prev |-> TrackChainLen, height |-> TrackChainLen,
      gen |-> 0, oid |-> TrackChainLen + 1 ]

\* the transactions the consumer has from elsewhere: the transaction FedTxid,
\* a coinbase transaction or one that spends the first output of the chain,
\* as a Tx
FedPlainTxs ==
    { [ txid |-> FedTxid, rawsize |-> TxSizeOf(TrackChainLen + 1, 1),
        inputs |-> ins, num_outputs |-> 1 ] :
        ins \in { << CoinbaseInput >>, << TxInput(TxsOf(1)[1].txid, 0) >> } }

\* the same as the consumer hands them over: of the kind it asked the
\* iterator for, a Tx or the TxInBlock that iter_txs_in_block makes of it
FedTxs ==
    IF txit.include_block_context
    THEN { TxInBlock(tx, FedBlock, 0) : tx \in FedPlainTxs }
    ELSE FedPlainTxs

\* the state after process_tx, called by the consumer, answered p
ProcessTxDone(p) ==
    /\ tracker' = p.tracker
    /\ fed' = Append(fed, p.tx)
    /\ result' = IF p.kind = "ok" THEN [ kind |-> "processed", txid |-> TxOf(p.tx).txid ]
                 ELSE [ kind |-> "UnknownOutput", txid |-> p.txid, vout |-> p.vout ]

\* the consumer calls process_tx of the tracker of the iterator
ProcessTxCall ==
    /\ pc = "idle"
    /\ Len(fed) + Len(txs_gen.tx_iter) < MaxFed
    /\ \E tx \in FedTxs : ProcessTxDone(process_tx(tracker, tx))
    /\ UNCHANGED << disk, cfg, raw, topo, lc, pc, txit, hist, files_out, tail,
                    tracked_out, txs_gen, later >>

\* the consumer calls process_txs_gen, or the tracker itself, on a list of
\* transactions: no statement of the generator runs yet
ProcessTxsGenCall ==
    /\ pc = "idle"
    /\ txs_gen.at = "none"
    /\ \E n \in 1..(MaxFed - Len(fed)) : \E tx_iter \in [ 1..n -> FedTxs ] :
          txs_gen' = process_txs_gen(tx_iter)
    /\ UNCHANGED << disk, cfg, raw, topo, lc, pc, result, txit, hist, files_out, tail,
                    tracker, tracked_out, fed, later >>

\* the state after next(generator) answered s
TxsGenNextDone(s) ==
    /\ tracker' = s.tracker
    /\ txs_gen' = s.gen
    /\ fed' = IF s.kind = "StopIteration" THEN fed ELSE Append(fed, s.tx)
    /\ result' = IF s.kind = "yielded" THEN [ kind |-> "yielded", txid |-> TxOf(s.tx).txid ]
                 ELSE IF s.kind = "StopIteration" THEN [ kind |-> "StopIteration" ]
                 ELSE [ kind |-> "UnknownOutput", txid |-> s.txid, vout |-> s.vout ]

\* the consumer calls next on the generator, between two calls of its own
TxsGenNextCall ==
    /\ pc = "idle"
    /\ txs_gen.at # "none"
    /\ TxsGenNextDone(TxsGenNext(txs_gen, tracker))
    /\ UNCHANGED << disk, cfg, raw, topo, lc, pc, txit, hist, files_out, tail,
                    tracked_out, later >>

StoreTrackBlock == StoreChainBlock(TrackChainLen)

\* TrackedSpendingTxIterator(include_block_context = ...): the keyword is
\* passed on to TxIterator.__init__
InitTrack ==
    /\ disk = << [ frames |-> << >>, pad |-> PreallocLen ] >>
    /\ cfg = [ margin |-> 1, refresh |-> TRUE, has_filter |-> FALSE, filter |-> NoFilter ]
    /\ raw = RawInit(disk)
    /\ topo = TopoInit
    /\ lc = LCInit
    /\ pc = "idle"
    /\ result = Idle
    /\ raw_out = << >>
    /\ topo_out = << >>
    /\ released = << >>
    /\ emitted = << >>
    /\ txit \in { TxInitWith(ctx, FALSE) : ctx \in BOOLEAN }
    /\ tx_out = << >>
    /\ files_out = << >>
    /\ tail = TailInit
    /\ tracker = TrackerInit
    /\ tracked_out = << >>
    /\ txs_gen = TxsGenNone
    /\ fed = << >>
    /\ LaterInit

NextTrack ==
    \/ StoreTrackBlock
    \/ TrackedNext
    \/ ProcessTxCall
    \/ ProcessTxsGenCall
    \/ TxsGenNextCall

SpecTrack == InitTrack /\ [][NextTrack]_vars

\* the key an input refers to, the inputs of tx that spend, the keys they
\* refer to and the keys of the outputs of tx
KeyOf(txin) == << txin.spent_txid, txin.spent_output_idx >>

SpendingInputs(tx) ==
    { k \in 1..Len(TxOf(tx).inputs) : ~TxOf(tx).inputs[k].is_coinbase }

SpentKeys(tx) == { KeyOf(TxOf(tx).inputs[k]) : k \in SpendingInputs(tx) }

OutputKeys(tx) == { << TxOf(tx).txid, i >> : i \in 0..(TxOf(tx).num_outputs - 1) }

\* ------------------------------------------------------------------ C18
\* the latest call was a call of process_tx that succeeded: made by __next__,
\* by the consumer, or by the generator of process_txs_gen
Processed == result.kind \in { "tx", "processed", "yielded" }

\* C18: when process_tx(T) has succeeded, the keys of the index are the keys
\* before the call, minus the key of every non-coinbase input of T, plus the
\* key of every output of T; every key spent was in the index before the
\* call (an output of T itself is not there yet), the entries kept are
\* unchanged and the new ones are the entries of the outputs of T.
C18_IndexAfterProcessTx ==
    Processed =>
        /\ DOMAIN tracker.utxoset =
              (DOMAIN tracker.before \ SpentKeys(tracker.last)) \cup OutputKeys(tracker.last)
        /\ SpentKeys(tracker.last) \subseteq DOMAIN tracker.before
        /\ \A k \in DOMAIN tracker.utxoset :
              IF k \in OutputKeys(tracker.last)
              THEN /\ tracker.utxoset[k].txid = k[1]
                   /\ tracker.utxoset[k].idx = k[2]
              ELSE tracker.utxoset[k] = tracker.before[k]

\* scenario S4: the coinbase T0 with one output, then T1 spending (T0, 0)
\* with two outputs; the index holds exactly (T1, 0) and (T1, 1)
C18_Witness ==
    /\ result.kind = "tx"
    /\ fed = << >>
    /\ Len(tracked_out) = 2
    /\ Len(tx_out) = 2
    /\ TxOf(tracked_out[1]).inputs = << CoinbaseInput >>
    /\ TxOf(tracked_out[1]).num_outputs = 1
    /\ Len(TxOf(tracked_out[2]).inputs) = 1
    /\ KeyOf(TxOf(tracked_out[2]).inputs[1]) = << TxOf(tracked_out[1]).txid, 0 >>
    /\ TxOf(tracked_out[2]).num_outputs = 2
    /\ DOMAIN tracker.utxoset =
          { << TxOf(tracked_out[2]).txid, 0 >>, << TxOf(tracked_out[2]).txid, 1 >> }

\* ------------------------------------------------------------------ C19
\* the transaction was returned with its block (include_block_context)
InBlock(tx) == "block" \in DOMAIN tx

\* the inputs of the returned transactions carry what spend removed: a
\* coinbase input has no spending info and a non-coinbase input has the info
\* of the output it names; that output was inserted by an earlier returned
\* transaction and is no longer in the index, or it is an output of a
\* transaction the consumer handed to the tracker; the latest successful call
\* looked up the index once per non-coinbase input and not at all for
\* coinbase inputs.  A transaction returned with its block is in the emitted
\* block it belongs to.
SpendingInfoAttached ==
    /\ \A n \in 1..Len(tracked_out) : \A k \in 1..Len(TxOf(tracked_out[n]).inputs) :
          LET tx == tracked_out[n]
              txin == TxOf(tx).inputs[k]
          IN  IF txin.is_coinbase THEN txin.spending_info = NoInfo
              ELSE /\ txin.spending_info.txid = txin.spent_txid
                   /\ txin.spending_info.idx = txin.spent_output_idx
                   /\ IF txin.spent_txid = FedTxid
                      THEN \E f \in 1..Len(fed) :
                              txin.spending_info = OutputInfo(fed[f], txin.spent_output_idx)
                      ELSE /\ \E m \in 1..(n - 1) :
                                 /\ TxOf(tracked_out[m]).txid = txin.spent_txid
                                 /\ txin.spent_output_idx < TxOf(tracked_out[m]).num_outputs
                                 /\ txin.spending_info =
                                       OutputInfo(tracked_out[m], txin.spent_output_idx)
                           /\ KeyOf(txin) \notin DOMAIN tracker.utxoset
    /\ \A n \in 1..Len(tracked_out) :
          InBlock(tracked_out[n]) =>
             \E i \in 1..Len(emitted) :
                /\ emitted[i].hash = TxOf(tracked_out[n]).txid \div 10
                /\ emitted[i].height = tracked_out[n].block.height
                /\ emitted[i].hash = tracked_out[n].block.hash
    /\ Processed => tracker.lookups = Cardinality(SpendingInputs(tracker.last))

MissingAt(tx, u, k) ==
    /\ k \in SpendingInputs(tx)
    /\ \/ KeyOf(TxOf(tx).inputs[k]) \notin DOMAIN u
       \/ \E j \in SpendingInputs(tx) :
             j < k /\ KeyOf(TxOf(tx).inputs[j]) = KeyOf(TxOf(tx).inputs[k])

\* a __next__ call that took a transaction from TxIterator took one, and
\* processed it against the index the call before had left.  It failed with
\* UnknownOutput exactly when some non-coinbase input names a key that is not
\* in the index at its turn (never inserted, or spent already by an earlier
\* transaction or an earlier input); the error names the key of the first
\* such input, the transaction is not returned, the keys of the inputs before
\* that one are gone from the index and no output of the transaction is
\* inserted.  Otherwise the transaction taken is the one returned.
TrackedCallRaisesOrReturns ==
    tx_out' # tx_out =>
        /\ Len(tx_out') = Len(tx_out) + 1
        /\ TxOf(tracker'.last).txid = TxOf(Last(tx_out')).txid
        /\ tracker'.before = tracker.utxoset
        /\ IF \E k \in 1..Len(TxOf(tracker'.last).inputs) :
                 MissingAt(tracker'.last, tracker.utxoset, k)
           THEN /\ result'.kind = "UnknownOutput"
                /\ \E k \in 1..Len(TxOf(tracker'.last).inputs) :
                      /\ MissingAt(tracker'.last, tracker.utxoset, k)
                      /\ \A j \in 1..(k - 1) : ~MissingAt(tracker'.last, tracker.utxoset, j)
                      /\ KeyOf(TxOf(tracker'.last).inputs[k]) = << result'.txid, result'.vout >>
                      /\ DOMAIN tracker'.utxoset =
                            DOMAIN tracker.utxoset \
                               { KeyOf(TxOf(tracker'.last).inputs[j]) :
                                    j \in SpendingInputs(tracker'.last) \cap 1..(k - 1) }
                /\ tracked_out' = tracked_out
           ELSE /\ result'.kind = "tx"
                /\ Len(tracked_out') = Len(tracked_out) + 1
                /\ TxOf(Last(tracked_out')).txid = TxOf(Last(tx_out')).txid

RECURSIVE ChainTxIds(_)
ChainTxIds(blocks) ==
    IF blocks = << >> THEN << >>
    ELSE TxIds(TxsOf(Head(blocks).hash)) \o ChainTxIds(Tail(blocks))

\* the height of the emitted block that holds the transaction, and the
\* transaction's place in that block
TxBlockHeight(txid) ==
    emitted[CHOOSE n \in 1..Len(emitted) : emitted[n].hash = txid \div 10].height

TxIndexInBlock(txid) == txid % 10

\* chain order of two transactions of emitted blocks
EarlierInChain(a, b) ==
    \/ TxBlockHeight(a) < TxBlockHeight(b)
    \/ TxBlockHeight(a) = TxBlockHeight(b) /\ TxIndexInBlock(a) < TxIndexInBlock(b)

\* C21: the transactions TxIterator has returned are the transactions of the
\* blocks its LongestChainBlockIterator has returned, block after block and
\* in their in-block order: all of every block but the last one returned,
\* and the first ones of that one (a block without transactions adds
\* nothing).  Hence every transaction that precedes a returned transaction in
\* chain order, which is every transaction a non-coinbase input of it may
\* spend from when the chain spends only earlier outputs, was returned
\* before it.
C21_TxsInChainOrder ==
    /\ IsPrefix(TxIds(tx_out), ChainTxIds(emitted))
    /\ emitted # << >> => Len(tx_out) >= Len(ChainTxIds(Front(emitted)))
    /\ \A n \in 1..Len(tx_out) :
         \A spent \in Range(ChainTxIds(emitted)) :
            EarlierInChain(spent, tx_out[n].txid)
               => \E k \in 1..(n - 1) : tx_out[k].txid = spent

\* C21 witness: a block with two transactions, then a block with none, then a
\* block whose transaction has been returned
C21_Witness ==
    /\ result.kind = "tx"
    /\ \E n \in 2..(Len(emitted) - 1) :
         /\ NumTxsOf(emitted[n - 1].hash) = 2
         /\ NumTxsOf(emitted[n].hash) = 0
         /\ NumTxsOf(emitted[n + 1].hash) = 1
         /\ result.txid = TxsOf(emitted[n + 1].hash)[1].txid
    /\ Len(tx_out) >= 4

\* ------------------------------------------------- C22, C23: BlockChain
BCHashes == 4           \* block hashes (and heights 0..BCHashes) a caller passes
MaxExtend == 2          \* blocks passed to one extend call

\* a BlockInfo built by the caller
BlockInfoOf(block_hash, height) ==
    [ block_hash |-> block_hash, height |-> height, timestamp |-> TimeOf(block_hash),
      num_txs |-> NumTxsOf(block_hash), rawsize |-> BlockRawSize(block_hash) ]

BlockInfos == { BlockInfoOf(h, k) : h \in 1..BCHashes, k \in 0..BCHashes }

\* the state after the call op answered r; args keeps the block an append
\* call was given (the history does not keep the blocks given to extend)
BCCallDone(op, args, r) ==
    /\ blockchain' = r.bc
    /\ result' = [ kind |-> r.kind, op |-> op, args |-> args,
                   added |-> BCLen(r.bc) - BCLen(blockchain) ]
    /\ UNCHANGED << disk, cfg, raw, topo, lc, pc, txit, hist,
                    files_out, tail, tracker, tracked_out, txs_gen, fed,
                    bc_out, gen, stream, sets_out, datadir, globit >>

\* the caller calls append, extend, clear or pop
BCAppendCall ==
    \E b \in BlockInfos : BCCallDone("append", << b >>, BCAppend(blockchain, b))

BCExtendCall ==
    \E bs \in UNION { [ 1..n -> BlockInfos ] : n \in 0..MaxExtend } :
        BCCallDone("extend", << >>, BCExtend(blockchain, bs))

BCClearCall ==
    BCCallDone("clear", << >>, [ kind |-> "ok", bc |-> BCClear(blockchain) ])

BCPopCall == BCCallDone("pop", << >>, BCPop(blockchain))

InitBlockChain == InitWith({0}, Unfiltered, {0})

NextBlockChain ==
    \/ BCAppendCall
    \/ BCExtendCall
    \/ BCClearCall
    \/ BCPopCall

SpecBlockChain == InitBlockChain /\ [][NextBlockChain]_vars

\* C22: after any sequence of append, extend and clear calls, the ones that
\* raise included, no block_hash is stored twice, the stored BlockInfos have
\* the heights 0, 1, ..., len-1 in insertion order, and the height index has
\* exactly the keys 0..len-1, each mapped to the hash of the stored block of
\* that height.
C22_BlockChainDense ==
    /\ \A i, j \in 1..BCLen(blockchain) :
          i # j => blockchain.blocks[i].block_hash # blockchain.blocks[j].block_hash
    /\ \A i \in 1..BCLen(blockchain) : blockchain.blocks[i].height = i - 1
    /\ DOMAIN blockchain.height_to_hash = 0..BCHeight(blockchain)
    /\ \A h \in 0..BCHeight(blockchain) :
          /\ blockchain.height_to_hash[h] = blockchain.blocks[h + 1].block_hash
          /\ BCGetByHeight(blockchain, h) =
                [ kind |-> "ok", block |-> blockchain.blocks[h + 1] ]

\* C22 witness: an extend call raised after it had appended its first block
\* to a chain of two
C22_Witness ==
    /\ result.kind = "ValueError"
    /\ result.op = "extend"
    /\ result.added = 1
    /\ BCLen(blockchain) = 3

\* C23: a pop call on a non-empty BlockChain returns the BlockInfo appended
\* last and leaves the chain without it: one block shorter, the popped height
\* gone from the height index, so that another block of the popped height
\* can be appended.
C23_PopRemovesLast ==
    [][ (result'.op = "pop" /\ blockchain.blocks # << >>) =>
          /\ result'.kind = "ok"
          /\ blockchain'.blocks = Front(blockchain.blocks)
          /\ DOMAIN blockchain'.height_to_hash = 0..(BCHeight(blockchain) - 1)
          /\ \A h \in 1..BCHashes :
                ~BCContainsHash(blockchain', h) =>
                   BCAppend(blockchain', BlockInfoOf(h, BCHeight(blockchain))).kind = "ok"
      ]_vars

\* ------------------------------------------------ C24: BlockChainIterator
\* the state after the call s of BlockChainIterator.__next__
BCIterCallDone(s) ==
    /\ blockchain' = s.bc
    /\ lc' = s.lc
    /\ topo' = s.topo
    /\ raw' = s.raw
    /\ raw_out' = raw_out \o s.out.pulled
    /\ topo_out' = topo_out \o s.out.got
    /\ released' = released \o s.out.released
    /\ emitted' = emitted \o s.out.emitted
    /\ bc_out' = IF s.kind = "block" THEN Append(bc_out, s.block) ELSE bc_out
    /\ result' = [ kind |-> s.kind ]

\* the consumer calls BlockChainIterator.__next__
BCIterCall ==
    /\ pc = "idle"
    /\ result.kind \in { "idle", "block", "StopIteration" }
    /\ BCIterCallDone(BCIterNext(blockchain, lc, topo, raw, disk, cfg))
    /\ UNCHANGED << disk, cfg, pc, txit, tx_out, files_out, tail, tracker, tracked_out, txs_gen, fed,
                    gen, stream, sets_out, datadir, globit >>

\* no filter, or a filter that starts at height 1
BCIterFilters ==
    Unfiltered \cup
    { [ has |-> TRUE, filter |-> [ NoFilter EXCEPT !.block_height = << 1, NoneVal >> ] ] }

InitBCIter == InitWith({0, 1}, BCIterFilters, {0, PreallocLen})

NextBCIter ==
    \/ StoreBlock(NumBlocks)
    \/ BCIterCall

SpecBCIter == InitBCIter /\ [][NextBCIter]_vars

\* C24: BlockChainIterator has returned the blocks its
\* LongestChainBlockIterator has returned, and its BlockChain holds the
\* BlockInfo of each of them, in that order.
C24_SameBlocksAsLongestChain ==
    /\ BlockValues(bc_out) = BlockValues(emitted)
    /\ blockchain.blocks = [ i \in 1..Len(emitted) |-> BlockInfoFromBlock(emitted[i]) ]

\* ------------------------------------- C25: IndependentTxSetGenerator
MaxStream == 5          \* transactions gen_sets takes from tx_iter
MaxSetSize == 3         \* max_set_size and max_pending_size range over 1..MaxSetSize

\* the state after the generator ran from one stop to the next: s is the
\* outcome, taken the transactions it took from tx_iter on the way
GenSetsStepDone(taken, s) ==
    /\ gen' = s.gen
    /\ stream' = stream \o taken
    /\ sets_out' = sets_out \o s.yielded
    /\ result' = [ kind |-> s.kind, yielded |-> Len(s.yielded) ]

GenSetsStepWith(tx) == GenSetsStepDone(<< tx >>, GenSetsTake(gen, tx))

\* the transactions tx_iter may hand over next: one with a txid of its own
\* that spends outputs of any of the transactions before it in the stream, or
\* of none; or one that spends nothing under the txid of a transaction before
\* it (the chain holds coinbase transactions with the same txid)
NextTxs ==
    { [ txid |-> Len(stream) + 1, spends |-> spends ] : spends \in SUBSET TxidsIn(stream) }
    \cup { [ txid |-> txid, spends |-> {} ] : txid \in TxidsIn(stream) }

\* gen_sets, at its for statement, takes the next transaction of tx_iter.  The
\* step ends at the first yield or back at the for statement.
GenSetsStep ==
    /\ gen.at = "for"
    /\ Len(stream) < MaxStream
    /\ \E tx \in NextTxs : GenSetsStepWith(tx)
    /\ UNCHANGED << disk, cfg, raw, topo, lc, pc, txit, hist,
                    files_out, tail, tracker, tracked_out, txs_gen, fed,
                    blockchain, bc_out, datadir, globit >>

\* the consumer, holding a list, asks for the next one: the generator goes on
\* after yield txs with the transfer from pending, up to the next yield or to
\* the for statement
GenSetsResume ==
    /\ gen.at = "yield"
    /\ GenSetsStepDone(<< >>, ReleaseSetsResume(gen))
    /\ UNCHANGED << disk, cfg, raw, topo, lc, pc, txit, hist,
                    files_out, tail, tracker, tracked_out, txs_gen, fed,
                    blockchain, bc_out, datadir, globit >>

InitGenSets ==
    /\ disk = << [ frames |-> << >>, pad |-> 0 ] >>
    /\ cfg = [ margin |-> 0, refresh |-> TRUE, has_filter |-> FALSE, filter |-> NoFilter ]
    /\ raw = RawInit(disk)
    /\ topo = TopoInit
    /\ lc = LCInit
    /\ pc = "idle"
    /\ result = Idle
    /\ raw_out = << >>
    /\ topo_out = << >>
    /\ released = << >>
    /\ emitted = << >>
    /\ txit = TxInit
    /\ tx_out = << >>
    /\ files_out = << >>
    /\ tail = TailInit
    /\ tracker = TrackerInit
    /\ tracked_out = << >>
    /\ txs_gen = TxsGenNone
    /\ fed = << >>
    /\ blockchain = BlockChainInit
    /\ bc_out = << >>
    /\ gen \in { GenInit(s, p) : s \in 1..MaxSetSize, p \in 1..MaxSetSize }
    /\ stream = << >>
    /\ sets_out = << >>
    /\ datadir = {}
    /\ globit = GlobFilesInit({}, "None", TRUE)

NextGenSets ==
    \/ GenSetsStep
    \/ GenSetsResume

SpecGenSets == InitGenSets /\ [][NextGenSets]_vars

\* C25: every transaction of a yielded list spends only outputs of
\* transactions of lists yielded before that list: none of the same list,
\* none still in next_set or pending, none of a later list.
C25_SetsIndependent ==
    \A i \in 1..Len(sets_out) :
       \A k \in 1..Len(sets_out[i]) :
          \A spent \in sets_out[i][k].spends :
             \E j \in 1..(i - 1) : spent \in TxidsIn(sets_out[j])

\* C25 witness: a yielded list of two or more holds a transaction that
\* arrived before the transaction it spends from was yielded, so it waited in
\* pending and was transferred after the list of the spent one went out
C25_Witness ==
    \E i \in 2..Len(sets_out) :
       /\ Len(sets_out[i]) >= 2
       /\ \E k \in 1..Len(sets_out[i]) :
             \E spent \in sets_out[i][k].spends :
                /\ spent \in TxidsIn(sets_out[i - 1])
                /\ \E later_tx \in TxidsIn(sets_out[i - 1]) : later_tx > sets_out[i][k].txid

\* ------------------------------ C26: the configured glob pattern
MaxFileNum == 2         \* file numbers of each stem in the data directory

Names == { [ stem |-> s, num |-> n ] : s \in { "blk", "rev" }, n \in 1..MaxFileNum }

\* the patterns an iterator is built with ("None": none given)
Patterns == { "None", "blk*.dat", "rev*.dat", "*.dat" }

\* the state after the call s of RawFilesIterator.__next__
GlobCallDone(s) ==
    /\ globit' = s.it
    /\ files_out' = IF s.kind = "file" THEN Append(files_out, s.name) ELSE files_out
    /\ result' = IF s.kind = "file" THEN [ kind |-> "file", name |-> s.name ]
                 ELSE [ kind |-> "StopIteration" ]

\* the consumer calls RawFilesIterator.__next__
GlobCall ==
    /\ GlobCallDone(GlobFilesNext(globit, datadir))
    /\ UNCHANGED << disk, cfg, raw, topo, lc, pc, txit, hist, tail, tracker, tracked_out, txs_gen, fed,
                    blockchain, bc_out, gen, stream, sets_out, datadir >>

\* any files of the two stems in the data directory, any pattern, refresh
\* enabled or not
InitGlob ==
    /\ disk = << [ frames |-> << >>, pad |-> 0 ] >>
    /\ cfg = [ margin |-> 0, refresh |-> TRUE, has_filter |-> FALSE, filter |-> NoFilter ]
    /\ raw = RawInit(disk)
    /\ topo = TopoInit
    /\ lc = LCInit
    /\ pc = "idle"
    /\ result = Idle
    /\ raw_out = << >>
    /\ topo_out = << >>
    /\ released = << >>
    /\ emitted = << >>
    /\ txit = TxInit
    /\ tx_out = << >>
    /\ files_out = << >>
    /\ tail = TailInit
    /\ tracker = TrackerInit
    /\ tracked_out = << >>
    /\ txs_gen = TxsGenNone
    /\ fed = << >>
    /\ blockchain = BlockChainInit
    /\ bc_out = << >>
    /\ gen = GenInit(NoneVal, NoneVal)
    /\ stream = << >>
    /\ sets_out = << >>
    /\ datadir \in SUBSET Names
    /\ \E p \in Patterns, r \in BOOLEAN : globit = GlobFilesInit(datadir, p, r)

NextGlob == GlobCall

SpecGlob == InitGlob /\ [][NextGlob]_vars

\* C26: every name RawFilesIterator has returned matches the pattern the
\* iterator was built with, and once it has signalled the end, every file of
\* the data directory whose name matches that pattern has been returned.
C26_ConfiguredPatternDecides ==
    /\ \A i \in 1..Len(files_out) :
          Matches(files_out[i], globit.raw_files_glob_pattern)
    /\ result.kind = "StopIteration" =>
          \A n \in datadir :
             Matches(n, globit.raw_files_glob_pattern) => n \in Range(files_out)

\* --------------------------------- C27: the release under a start bound
TreeBlocksMax == 7      \* blocks stored before the run, each under an earlier one

\* bitcoind stores one more block before the first __next__ call: a child of
\* any block stored before it, or another block without a parent
StoreTreeBlock ==
    /\ result = Idle
    /\ Len(AllFrames(disk)) < TreeBlocksMax
    /\ \E p \in 0..Len(AllFrames(disk)) :
          disk' = WriteFrame(disk, [ hash |-> Len(AllFrames(disk)) + 1, prev |-> p ])
    /\ UNCHANGED << cfg, raw, topo, lc, pc, result, txit, hist, aux >>

\* margin 1 or 2, and a filter that starts at height 1
StartFilter ==
    { [ has |-> TRUE, filter |-> [ NoFilter EXCEPT !.block_height = << 1, NoneVal >> ] ] }

InitRejecting == InitWith({1, 2}, StartFilter, {0})

NextRejecting ==
    \/ StoreTreeBlock
    \/ LCCall
    \/ LCRelease
    \/ LCRead

SpecRejecting == InitRejecting /\ [][NextRejecting]_vars

\* C27: whenever _get_next_block_to_release is entered with a sufficient
\* height gap, _last_block is as high as the highest leaf, the walk along the
\* parents from _last_block ends at a child of the root, and that child is the
\* block released.
C27_LastBlockLeadsAtRelease ==
    (pc = "release" /\ CheckHeightsGap(lc, cfg.margin) = "yes") =>
        /\ lc.last_block.height = Last(lc.leaf_heights)
        /\ FindChildFrom(lc.last_block, lc.root_block, lc.blocks_by_hash).kind = "ok"
        /\ GetNextBlockToRelease(lc, cfg.margin).kind = "block"
        /\ GetNextBlockToRelease(lc, cfg.margin).block.prev = lc.root_block.hash

\* ------------------------------------------- C28: a block that is dropped
\* the block _read_another_block fetched last was dropped: it is the last one
\* the topological iterator handed over, the loop is back at the release
\* attempt, and the block is not in the fork tree
JustDropped(h) ==
    /\ pc = "release"
    /\ topo_out # << >>
    /\ Last(topo_out).hash = h
    /\ h \notin DOMAIN lc.blocks_by_hash

\* C28: when _read_another_block fetches a block whose parent is not in the
\* fork tree, the block is dropped and the iterator's state is what it was:
\* blocks_by_hash, the children, leaf_heights, the root and _last_block; and
\* a block dropped is not returned at any later time.
C28_DroppedBlockChangesNothing ==
    /\ [][ (topo_out' # topo_out /\
            Last(topo_out').prev \notin DOMAIN lc.blocks_by_hash) =>
              (lc' = lc /\ emitted' = emitted /\ released' = released) ]_vars
    /\ \A h \in 1..NumBlocks :
          [](JustDropped(h) => [](\A i \in 1..Len(emitted) : emitted[i].hash # h))

\* C28 witness: a block was dropped whose parent had been handed over before
\* it and has left the fork tree since
C28_Witness ==
    /\ \E h \in 1..NumBlocks : JustDropped(h)
    /\ \E i \in 1..(Len(topo_out) - 1) : topo_out[i].hash = Last(topo_out).prev
    /\ Last(topo_out).prev \notin DOMAIN lc.blocks_by_hash
    /\ emitted # << >>

\* ------------------------------------------------ C29: the leaf heights
\* how often the height k occurs in _leaf_heights
LeafHeightCount(l, k) ==
    Cardinality({ i \in 1..Len(l.leaf_heights) : l.leaf_heights[i] = k })

\* the blocks of the fork tree without children
ChildlessBlocks(l) ==
    { h \in DOMAIN l.blocks_by_hash : l.block_children[h] = << >> }

\* C29: in every state of the iterator, between calls and inside them,
\* _leaf_heights holds the heights of the blocks of the fork tree that have
\* no children, the root included when it has none, each height as often as
\* there are such blocks of that height, in ascending order.
C29_LeafHeightsAreTheLeaves ==
    /\ DOMAIN lc.block_children = DOMAIN lc.blocks_by_hash
    /\ \A k \in PreGenesisHeight..NumBlocks :
          LeafHeightCount(lc, k) =
             Cardinality({ h \in ChildlessBlocks(lc) : lc.blocks_by_hash[h].height = k })
    /\ Len(lc.leaf_heights) = Cardinality(ChildlessBlocks(lc))
    /\ \A i \in 2..Len(lc.leaf_heights) : lc.leaf_heights[i - 1] <= lc.leaf_heights[i]

\* C29 witness: a block was returned and a sibling of it, a leaf then, was
\* discarded with the old root; the tree is left with the new root and one
\* leaf above it
C29_Witness ==
    /\ emitted # << >>
    /\ \E i \in 1..Len(topo_out) :
          /\ topo_out[i].prev = Last(emitted).prev
          /\ topo_out[i].hash # Last(emitted).hash
          /\ topo_out[i].hash \notin DOMAIN lc.blocks_by_hash
          /\ \A j \in 1..Len(topo_out) : topo_out[j].prev # topo_out[i].hash
          /\ \E j \in (i + 1)..Len(topo_out) : topo_out[j].hash = Last(emitted).hash
    /\ lc.root_block.hash = Last(emitted).hash
    /\ Len(lc.leaf_heights) = 1
    /\ lc.leaf_heights[1] > lc.root_block.height

\* ------------------------------------------- C30: the tree after a release
\* the blocks of the fork tree l that descend from the block b
DescendantsInTree(l, b) ==
    { h \in DOMAIN l.blocks_by_hash :
        h # b.hash /\ AncestorOrEqualInTree(l, b.hash, l.blocks_by_hash[h]) }

\* C30: in the state right after a block B was released, B is the root and
\* the keys of blocks_by_hash, which are the keys of the children map, are B
\* and the blocks of the tree before the release that descend from B; the
\* old root and the subtrees of the other children of the old root are gone.
C30_TreeAfterRelease ==
    [][ released' # released =>
          /\ lc'.root_block = Last(released')
          /\ DOMAIN lc'.blocks_by_hash =
                { Last(released').hash } \cup DescendantsInTree(lc, Last(released'))
          /\ DOMAIN lc'.block_children = DOMAIN lc'.blocks_by_hash
          /\ lc.root_block.hash \notin DOMAIN lc'.blocks_by_hash
          /\ \A h \in DOMAIN lc'.blocks_by_hash :
                /\ lc'.blocks_by_hash[h] = lc.blocks_by_hash[h]
                /\ lc'.block_children[h] = lc.block_children[h]
      ]_vars

\* C30 witness: a block was released whose sibling had a child in the tree;
\* both are gone, and the tree holds the released block and descendants of it
C30_Witness ==
    /\ released # << >>
    /\ lc.root_block = Last(released)
    /\ Cardinality(DOMAIN lc.blocks_by_hash) >= 3
    /\ \E i, j \in 1..Len(topo_out) :
          /\ i < j
          /\ topo_out[i].prev = Last(released).prev
          /\ topo_out[i].hash # Last(released).hash
          /\ topo_out[j].prev = topo_out[i].hash
          /\ \E k \in (j + 1)..Len(topo_out) :
                topo_out[k].hash = lc.last_block.hash
          /\ topo_out[i].hash \notin DOMAIN lc.blocks_by_hash
          /\ topo_out[j].hash \notin DOMAIN lc.blocks_by_hash

\* -------------------------------- C31: a filter and the fork resolution
\* the same constructor arguments without the block filter
WithoutFilter(c) == [ c EXCEPT !.has_filter = FALSE, !.filter = NoFilter ]

\* s is a run of consecutive elements of t
IsSegment(s, t) ==
    \E k \in 0..(Len(t) - Len(s)) : SubSeq(t, k + 1, k + Len(s)) = s

\* C31: over the same stored data and with the same margin, a call of the
\* iterator with a block filter ends with a block or with the end of the
\* stream, never with another error, and the blocks it has returned are
\* consecutive blocks of the sequence the iterator without a filter returns.
C31_FilteredIsSegmentOfUnfiltered ==
    (pc = "idle" /\ result # Idle) =>
        /\ result.kind \in { "block", "StopIteration" }
        /\ IsSegment(BlockValues(emitted),
                     BlockValues(FullRun(disk, WithoutFilter(cfg)).out.emitted))

\* -------------------------------- C32: the end by a stop bound is final
\* C32: once the stop bound of the filter has ended the stream (is_ended is
\* set), no step adds a block to the output, and every call of __next__ that
\* completes afterwards signals the end of the stream, whatever blocks are
\* stored in the meantime.
C32_EndedStaysEnded ==
    [][ lc.is_ended =>
          /\ emitted' = emitted
          /\ lc'.is_ended
          /\ (pc' = "idle" => result'.kind = "StopIteration") ]_vars

\* the stop bound ended the stream at block 2, and a later call released
\* block 3 and signalled the end again
C32_Witness ==
    /\ cfg.has_filter
    /\ cfg.filter.block_hash = << NoneVal, 2 >>
    /\ lc.is_ended
    /\ pc = "idle"
    /\ result.kind = "StopIteration"
    /\ BlockValues(emitted) = << << 1, 0 >> >>
    /\ Len(released) >= 3
    /\ released[Len(released)].hash = 3

\* -------------------------------- C33: what append rejects and what it adds
\* the hashes a BlockChain holds, in insertion order
BCStoredHashes(bc) == [ i \in 1..Len(bc.blocks) |-> bc.blocks[i].block_hash ]

\* C33: an append call with a block whose height is not the height of the
\* chain plus one, or whose hash the chain already holds, raises ValueError
\* and leaves the chain as it was; any other append call adds the block at
\* the end, records its hash under its height, and raises the height of the
\* chain by one.
C33_AppendChecksHeightAndHash ==
    [][ result'.op = "append" =>
          IF \/ result'.args[1].height # Len(blockchain.blocks)
             \/ \E i \in 1..Len(blockchain.blocks) :
                   BCStoredHashes(blockchain)[i] = result'.args[1].block_hash
          THEN /\ result'.kind = "ValueError"
               /\ blockchain' = blockchain
          ELSE /\ result'.kind = "ok"
               /\ blockchain'.blocks = Append(blockchain.blocks, result'.args[1])
               /\ BCHeight(blockchain') = BCHeight(blockchain) + 1
               /\ BCGetByHeight(blockchain', result'.args[1].height) =
                     [ kind |-> "ok", block |-> result'.args[1] ] ]_vars

\* an append call with the expected height and a hash the chain of two
\* already holds raised ValueError
C33_Witness ==
    /\ result.kind = "ValueError"
    /\ result.op = "append"
    /\ BCLen(blockchain) = 2
    /\ result.args[1].height = 2
    /\ BCContainsHash(blockchain, result.args[1].block_hash)

\* -------------------------------- C34: the end of a block's transactions
MaxBlockTxs == 3

TxRawSizes == { 11, 12 }

\* the byte strings a BlockTxsIterator is built over: up to MaxBlockTxs
\* serialized transactions, one after the other
TxBlobs ==
    UNION { { [ i \in 1..n |-> [ txid |-> i, rawsize |-> sizes[i] ] ] :
                sizes \in [ 1..n -> TxRawSizes ] } : n \in 0..MaxBlockTxs }

\* the block the transactions belong to
TxsBlock == [ hash |-> 1, prev |-> 0, height |-> 0, gen |-> 0, oid |-> 1 ]

\* the state after BlockTxsIterator.__next__ answered n
BlockTxsCallDone(n) ==
    /\ txit' = [ txit EXCEPT !.block_txs = n.bt ]
    /\ tx_out' = IF n.kind = "tx" THEN Append(tx_out, n.tx) ELSE tx_out
    /\ result' = IF n.kind = "tx" THEN [ kind |-> "tx", txid |-> TxOf(n.tx).txid ]
                 ELSE [ kind |-> n.kind ]

\* the consumer calls BlockTxsIterator.__next__
BlockTxsCall ==
    /\ result.kind \in { "idle", "tx", "StopIteration" }
    /\ BlockTxsCallDone(BlockTxsNext(txit.block_txs))
    /\ UNCHANGED << disk, cfg, raw, topo, lc, pc, raw_out, topo_out, released,
                    emitted, aux >>

\* a BlockTxsIterator over any of the byte strings, with any count of
\* transactions announced by the varint, right or wrong
InitBlockTxs ==
    /\ disk = << [ frames |-> << >>, pad |-> 0 ] >>
    /\ cfg = [ margin |-> 0, refresh |-> TRUE, has_filter |-> FALSE, filter |-> NoFilter ]
    /\ raw = RawInit(disk)
    /\ topo = TopoInit
    /\ lc = LCInit
    /\ pc = "idle"
    /\ result = Idle
    /\ raw_out = << >>
    /\ topo_out = << >>
    /\ released = << >>
    /\ emitted = << >>
    /\ \E txs \in TxBlobs, n \in 0..(MaxBlockTxs + 1), ctx \in BOOLEAN, blob \in BOOLEAN :
          txit = [ TxInitWith(ctx, blob) EXCEPT
                     !.block_txs = BlockTxsIteratorInit(txs, n, TxsBlock, ctx, blob) ]
    /\ tx_out = << >>
    /\ files_out = << >>
    /\ tail = TailInit
    /\ tracker = TrackerInit
    /\ tracked_out = << >>
    /\ txs_gen = TxsGenNone
    /\ fed = << >>
    /\ LaterInit

NextBlockTxs == BlockTxsCall

SpecBlockTxs == InitBlockTxs /\ [][NextBlockTxs]_vars

\* the sum of the rawsize of the transactions yielded so far
YieldedSize == SumSeq([ i \in 1..Len(tx_out) |-> TxOf(tx_out[i]).rawsize ])

\* C34: when BlockTxsIterator signals the end of the block it has yielded
\* num_txs transactions and the sum of their rawsize is the length of the
\* bytes after the varint; and a call made after num_txs transactions were
\* yielded ends with an error, not with the end of the block, when that sum is
\* not the length of the bytes.
C34_EndOfBlockAtEndOfBlob ==
    /\ result.kind = "StopIteration" =>
          /\ Len(tx_out) = txit.block_txs.num_txs
          /\ YieldedSize = TxBlobLen(txit.block_txs.blob.txs)
    /\ ( /\ result.kind \notin { "idle", "tx" }
         /\ Len(tx_out) = txit.block_txs.num_txs
         /\ YieldedSize # TxBlobLen(txit.block_txs.blob.txs) ) =>
          result.kind = "AssertionError"

\* the end of a block of three transactions of different sizes
C34_Witness ==
    /\ result.kind = "StopIteration"
    /\ Len(tx_out) = 3
    /\ YieldedSize = 11 + 12 + 11
    /\ txit.block_txs.offset = TxBlobLen(txit.block_txs.blob.txs)

\* -------------------------------- C35: the options of TxIterator
TxChainLen == 4

\* a TxIterator built with any combination of include_block_context and
\* include_tx_blob, over a chain that is stored while it runs
InitTxOptions ==
    /\ disk = << [ frames |-> << >>, pad |-> 0 ] >>
    /\ cfg = [ margin |-> 1, refresh |-> TRUE, has_filter |-> FALSE, filter |-> NoFilter ]
    /\ raw = RawInit(disk)
    /\ topo = TopoInit
    /\ lc = LCInit
    /\ pc = "idle"
    /\ result = Idle
    /\ raw_out = << >>
    /\ topo_out = << >>
    /\ released = << >>
    /\ emitted = << >>
    /\ txit \in { TxInitWith(ctx, blob) : ctx \in BOOLEAN, blob \in BOOLEAN }
    /\ tx_out = << >>
    /\ files_out = << >>
    /\ tail = TailInit
    /\ tracker = TrackerInit
    /\ tracked_out = << >>
    /\ txs_gen = TxsGenNone
    /\ fed = << >>
    /\ LaterInit

\* the consumer calls TxIterator.__next__, also again after the end of the
\* stream was signalled
TxNextAgain ==
    /\ pc = "idle"
    /\ result.kind \in { "idle", "tx", "StopIteration" }
    /\ TxNextDone(TxNextLoop(txit, lc, topo, raw, disk, cfg, NoOutput))
    /\ UNCHANGED << disk, cfg, pc, aux >>

NextTxOptions ==
    \/ StoreChainBlock(TxChainLen)
    \/ TxNextAgain

SpecTxOptions == InitTxOptions /\ [][NextTxOptions]_vars

\* the transaction carries its raw bytes
HasBlob(t) == "blob" \in DOMAIN TxOf(t)

\* C35: a TxIterator built with include_tx_blob = True returns only
\* transactions that carry their raw bytes, whether include_block_context is
\* False (plain Tx objects) or True (TxInBlock objects).
C35_BlobWithAndWithoutContext ==
    txit.include_tx_blob => \A i \in 1..Len(tx_out) : HasBlob(tx_out[i])

\* -------------------------------- C36: where a pulled block is
\* the blocks waiting in _orphans, list after list
RECURSIVE OrphanSeq(_, _)
OrphanSeq(t, k) ==
    IF k < 0 THEN << >>
    ELSE OrphanSeq(t, k - 1) \o (IF k \in DOMAIN t.orphans THEN t.orphans[k] ELSE << >>)

\* how many elements of s are the block h
CountHash(s, h) == Cardinality({ i \in 1..Len(s) : s[i].hash = h })

\* C36: every block pulled from the upstream iterator is in exactly one
\* place: returned already, in _ready_blocks, or in a list of _orphans (as
\* often there as it was pulled, so none is lost or returned twice); and a
\* step pulls from upstream only when _ready_blocks is empty.
C36_PulledBlockInOnePlace ==
    /\ [](\A h \in 1..NumBlocks :
            CountHash(raw_out, h) =
                CountHash(topo_out, h) + CountHash(topo.ready, h)
                    + CountHash(OrphanSeq(topo, NumBlocks), h))
    /\ [][ raw_out' # raw_out => topo.ready = << >> ]_vars

\* a returned block, two blocks ready and an orphan at the same time
C36_Witness ==
    /\ Len(topo_out) = 1
    /\ Len(topo.ready) = 2
    /\ Len(OrphanSeq(topo, NumBlocks)) = 1
    /\ Len(raw_out) = 4
    /\ \A h \in 1..NumBlocks : CountHash(raw_out, h) = 1

\* -------------------------------- C37: what is left at the end of the data
\* the hashes of the blocks pulled from upstream, returned, and left orphans
PulledHashes == { raw_out[i].hash : i \in 1..Len(raw_out) }

ReturnedHashes == { topo_out[i].hash : i \in 1..Len(topo_out) }

OrphanHashes ==
    { OrphanSeq(topo, NumBlocks)[i].hash : i \in 1..Len(OrphanSeq(topo, NumBlocks)) }

\* the block h and its ancestors, n links back at most, were all pulled, and
\* the first of them is a genesis block
RECURSIVE PulledBackToGenesis(_, _)
PulledBackToGenesis(h, n) ==
    /\ n >= 0
    /\ h \in PulledHashes
    /\ \/ PrevOf(disk, h) = GENESIS_PREV_BLOCK_HASH
       \/ PulledBackToGenesis(PrevOf(disk, h), n - 1)

\* C37: when a call ends because the upstream iterator is exhausted, nothing
\* is left in _ready_blocks, the blocks returned so far are exactly the pulled
\* blocks whose ancestors back to a genesis block were all pulled, in whatever
\* order they were stored, and the blocks left in _orphans are exactly the
\* other pulled blocks.
C37_ConnectedBlocksReturnedAtEnd ==
    (pc = "idle" /\ result.kind = "StopIteration") =>
        /\ topo.ready = << >>
        /\ ReturnedHashes = { h \in PulledHashes : PulledBackToGenesis(h, NumBlocks) }
        /\ OrphanHashes = PulledHashes \ ReturnedHashes

\* a chain of three stored last block first: all three were orphans or came
\* after one, and all three were returned, the genesis block first
C37_Witness ==
    /\ pc = "idle"
    /\ result.kind = "StopIteration"
    /\ [ i \in 1..Len(raw_out) |-> raw_out[i].hash ] = << 1, 2, 3 >>
    /\ [ i \in 1..Len(topo_out) |-> topo_out[i].hash ] = << 3, 2, 1 >>
    /\ OrphanHashes = {}

\* -------------------------------- C38: the end of the data changes nothing
\* C38: a _read_another_block step that ends the call with the StopIteration
\* of the upstream iterator leaves the fork tree, leaf_heights, the root and
\* _last_block as they were, returns and releases nothing, and leaves
\* _ready_blocks and the heights of the topological iterator as they were
\* (all of its state when the step pulled no block at all); and after any
\* number of such calls, with blocks stored in between, the blocks returned
\* so far are the first ones of the uninterrupted run over the data stored
\* now, and all of them once the call has ended with every stored block
\* pulled.
C38_EndOfDataChangesNothing ==
    /\ [][ (pc = "read" /\ result'.kind = "StopIteration") =>
             /\ lc' = lc
             /\ emitted' = emitted
             /\ released' = released
             /\ topo_out' = topo_out
             /\ topo'.ready = topo.ready
             /\ topo'.height_by_hash = topo.height_by_hash
             /\ (raw_out' = raw_out => topo' = topo) ]_vars
    /\ []((pc = "idle" /\ result.kind \in { "block", "StopIteration" }) =>
             /\ IsPrefix(BlockValues(emitted),
                         BlockValues(FullRun(disk, cfg).out.emitted))
             /\ (result.kind = "StopIteration" /\ Len(raw_out) = Len(AllFrames(disk))) =>
                    BlockValues(emitted) = BlockValues(FullRun(disk, cfg).out.emitted))

\* the end of the data was signalled with a block returned, two blocks kept
\* in the fork tree and an orphan waiting, and a block was stored afterwards
C38_Witness ==
    /\ pc = "idle"
    /\ result.kind = "StopIteration"
    /\ disk[1].pad > 0
    /\ Len(emitted) = 1
    /\ Cardinality(DOMAIN lc.blocks_by_hash) >= 2
    /\ Len(OrphanSeq(topo, NumBlocks)) = 1
    /\ Len(raw_out) = 3
    /\ Len(AllFrames(disk)) = 4

\* -------------------------------- C39: no timeout, no end without stop()
\* C39: with timeout = None (kept as infinity) a __next__ call of the tailable
\* ends in two ways only: it returns an element of the underlying iterator,
\* or it raises StopIteration at the loop condition with the stop event set;
\* a poll that meets the end of the underlying iterator is followed by a wait
\* and the wait by the loop condition, however often the end was met, also
\* when no data will ever be stored again.
C39_NoTimeoutEndsOnlyByStop ==
    /\ [][ (tail.timeout = Inf /\ tail.pc # "idle" /\ tail'.pc = "idle") =>
             \/ tail.pc = "poll" /\ result'.kind = "block"
             \/ tail.pc = "check" /\ tail.stop /\ result'.kind = "StopIteration" ]_vars
    /\ [][ (tail.timeout = Inf /\ tail.pc = "poll" /\ tail'.pc \notin { "poll", "idle" }) =>
             tail'.pc = "sleep" /\ tail'.call_polls = tail.call_polls + 1 ]_vars
    /\ [][ (tail.timeout = Inf /\ tail.pc = "sleep" /\ tail'.pc # "sleep") =>
             tail'.pc = "check" ]_vars
    /\ [][ (tail.timeout = Inf /\ tail.pc = "check" /\ ~tail.stop /\ tail'.pc # "check") =>
             tail'.pc = "poll" ]_vars

\* every block was stored and returned; the third call, with no timeout and
\* no stop(), has met the end three times and is waiting to poll again
C39_Witness ==
    /\ tail.timeout = Inf
    /\ ~tail.stop
    /\ Len(AllFrames(disk)) = TailBlocks
    /\ Len(tail.out) = TailBlocks
    /\ tail.calls = 3
    /\ tail.call_polls >= 3
    /\ tail.pc = "sleep"

\* -------------------------------- C40: the end of a finite stream
\* gen_sets when tx_iter is exhausted: the for loop ends and the generator
\* returns; nothing follows the loop
GenSetsFinish ==
    /\ gen.at = "for"
    /\ gen' = [ gen EXCEPT !.at = "end" ]
    /\ result' = [ kind |-> "finished", yielded |-> 0 ]
    /\ UNCHANGED << disk, cfg, raw, topo, lc, pc, txit, hist,
                    files_out, tail, tracker, tracked_out, txs_gen, fed,
                    blockchain, bc_out, stream, sets_out, datadir, globit >>

\* a stream of up to MaxStream transactions that may end after any of them
NextGenSetsFinite ==
    \/ GenSetsStep
    \/ GenSetsResume
    \/ GenSetsFinish

SpecGenSetsFinite == InitGenSets /\ [][NextGenSetsFinite]_vars

\* the transactions of the lists ss, one list after the other
RECURSIVE Flatten(_)
Flatten(ss) == IF ss = << >> THEN << >> ELSE Head(ss) \o Flatten(Tail(ss))

\* how many times the transaction tx stands in txs
CountTx(txs, tx) == Cardinality({ i \in 1..Len(txs) : txs[i] = tx })

\* C40: when gen_sets has finished over a finite stream, every transaction of
\* the stream is in exactly one of the lists it yielded (it was yielded as
\* many times as the stream held it), and nothing is left in next_set or in
\* pending.
C40_EveryTxYieldedAtTheEnd ==
    result.kind = "finished" =>
        /\ \A i \in 1..Len(stream) :
              CountTx(Flatten(sets_out), stream[i]) = CountTx(stream, stream[i])
        /\ gen.next_set = << >>
        /\ gen.pending = << >>
============================================================================
